---- MODULE Spec2Model ----
(***************************************************************************)
(* Model of the omp-bun-demo bridge: the scripting-side BridgeServer       *)
(* (correlation registry, deadline timers, broker connection lifecycle)    *)
(* and the OpenMP event dispatcher (handler chains, once, off).            *)
(*                                                                         *)
(* Two specifications share this module.                                   *)
(*   Spec         BridgeServer.ts: start/stop, subscriber connection       *)
(*                events, inbound messages, sendCommand, timers.           *)
(*   DispatchSpec OpenMP.ts: on/once/off and dispatchEvent over the        *)
(*                handlers map.                                            *)
(* The two classes share no field: an inbound Event reaches the dispatcher *)
(* through emit("event", ...), which starts one dispatchEvent call.  Each  *)
(* specification keeps the other class's fields at their constructed       *)
(* values.                                                                 *)
(***************************************************************************)
EXTENDS Integers, Sequences, FiniteSets, Bags, TLC

(***************************************************************************)
(* Bounds                                                                  *)
(***************************************************************************)
MaxCalls == 2
MaxStarts == 1
MaxEntries == 2
MaxDispatches == 2
MaxHandlers == 3
MaxBuffer == 6
MaxEvents == 2
MaxWaits == 2
MaxAttempts == 32

(***************************************************************************)
(* Program constants                                                       *)
(***************************************************************************)
DefaultTimeout == 5000
\* retryStrategy: the delay added per attempt and the largest delay, in ms
RetryStep == 100
RetryCap == 3000
CHANNEL_EVENTS == "omp:events"
CHANNEL_COMMANDS == "omp:commands"
CHANNEL_RESPONSES == "omp:responses"

Undefined == "undefined"

VARIABLES
    publisher,         \* BridgeServer.publisher: 0 = null, g = the client created by the g-th start()
    subscriber,        \* BridgeServer.subscriber: 0 = null, g = the client created by the g-th start()
    subStatus,         \* per subscriber client: "none", "connecting", "connect", "ready",
                       \* "reconnecting", "end"
    subQuit,           \* per subscriber client: quit() has been called on it
    starts,            \* number of start() calls so far
    connected,         \* BridgeServer.connected
    messageId,         \* BridgeServer.messageId
    pendingResponses,  \* BridgeServer.pendingResponses: entries in insertion order
    timers,            \* armed deadline timers (setTimeout handles not yet fired or cleared)
    calls,             \* the promises returned by sendCommand, in call order
    published,         \* payloads published on the commands channel, in order
    emitted,           \* signals emitted by the most recent step
    logError,          \* the most recent step ran handleMessage's catch branch
    stopPc             \* position of the running stop() call

bridgeVars == <<publisher, subscriber, subStatus, subQuit, starts, connected, messageId,
                pendingResponses, timers, calls, published, emitted, logError, stopPc>>

VARIABLES
    handlers,          \* OpenMP.handlers: event name -> its Set object (0 = no entry)
    sets,              \* the Set objects ever created: entry lists, 0 = deleted entry
    wrappers,          \* the wrappedHandler closures created by once()
    dispatches,        \* the dispatchEvent calls started so far, a bag: the Set iterated,
                       \* the iterator position, the handlers called (log), and whether
                       \* the call awaits ("pending", "ready") or returned ("stopped",
                       \* "exhausted")
    fired,             \* per once() wrapper: how often it called its handler
    consoleError       \* the most recent step ran dispatchEvent's catch branch

dispatchVars == <<handlers, sets, wrappers, dispatches, fired, consoleError>>

VARIABLES
    hostConn,          \* the filterscript's connection: "init" (Bridge_DelayedConnect not
                       \* yet run), "connected" (gBridgeConnected), "failed" (Bridge_Connect
                       \* returned 0)
    hostNext,          \* how many of the payloads in `published` the broker has handed on
    hostInbox,         \* the payloads handed to the filterscript that Bridge_OnCommand
                       \* has not yet run for
    hostLast,          \* the most recent Bridge_OnCommand run: its input and its locals
    responses,         \* the texts the filterscript published on omp:responses, in order
    escapeIn,          \* the arguments of a Bridge_EscapeJSON call: input and maxlen
    escapeOut,         \* what the call wrote to output[] and returned
    hostEvents         \* the names of the Events the filterscript published on
                       \* omp:events, in order; the k-th has the id k (gMessageId)

escapeVars == <<escapeIn, escapeOut>>
hostVars == <<hostConn, hostNext, hostInbox, hostLast, responses, escapeVars, hostEvents>>

VARIABLES
    waits              \* the promises returned by OpenMP.waitForConnection, in call
                       \* order: "waiting" or "resolved"

VARIABLES
    retryTimes,        \* the attempt number last passed to retryStrategy, 0 before
                       \* the first reconnection attempt
    retryDelay         \* the value retryStrategy returned last

apiVars == <<waits, retryTimes, retryDelay>>

vars == <<bridgeVars, dispatchVars, hostVars, apiVars>>

(***************************************************************************)
(* Values                                                                  *)
(***************************************************************************)
Gens == 1..(MaxStarts + 1)
Commands == {"Ping"}
\* The argument list of a command without arguments
NoArgs == <<>>
\* The timeout argument of sendCommand: omitted, or a number of milliseconds
NoTimeout == [given |-> FALSE, ms |-> 0]
GivenTimeout(ms) == [given |-> TRUE, ms |-> ms]
TimeoutArgs == {NoTimeout, GivenTimeout(1000)}
Channels == {CHANNEL_EVENTS, CHANNEL_RESPONSES, CHANNEL_COMMANDS}

RECURSIVE NumberToString(_)
\* Number.prototype.toString(): the base-10 digits of a non-negative integer
NumberToString(n) ==
    IF n < 10 THEN <<n>> ELSE NumberToString(n \div 10) \o <<n % 10>>

\* A JSON id value is a number or a string of characters
NumId(n) == [t |-> "num", n |-> n, s |-> <<>>]
StrId(s) == [t |-> "str", n |-> 0, s |-> s]

\* String(data.id)
String(v) == IF v.t = "num" THEN NumberToString(v.n) ELSE v.s

ResponseIds == {NumId(n) : n \in 1..(MaxCalls + 1)} \cup {StrId(<<1>>), StrId(<<0, 1>>)}
RValues == {0, 7}
ETexts == {Undefined, "OnEvent"}

\* What JSON.parse(raw) yields: a throw for malformed text, null, or an object
Malformed == [kind |-> "malformed", id |-> NumId(0), ok |-> FALSE, r |-> 0, e |-> Undefined]
Null == [kind |-> "null", id |-> NumId(0), ok |-> FALSE, r |-> 0, e |-> Undefined]
\* A response carries r when ok is true and may carry e when it is false
Objects ==
    [kind : {"obj"}, id : ResponseIds, ok : {TRUE}, r : RValues, e : {Undefined}]
        \cup [kind : {"obj"}, id : ResponseIds, ok : {FALSE}, r : {0}, e : ETexts]
Messages == Objects \cup {Malformed, Null}

\* The messages delivered on a channel.  Every channel may carry unparseable
\* text; the events channel and channels that are not subscribed to carry
\* objects that also have the id and ok fields of a Response.
MessagesOn(ch) ==
    IF ch = CHANNEL_RESPONSES THEN Messages
    ELSE {m \in Messages : m.kind = "obj" => (m.id = NumId(1) /\ ~m.ok)}

(***************************************************************************)
(* Map<string, PendingResponse> with insertion order                       *)
(***************************************************************************)
MapHas(m, k) == \E i \in 1..Len(m) : m[i].id = k
MapIndex(m, k) == CHOOSE i \in 1..Len(m) : m[i].id = k
\* Map.get, wrong: the oldest entry whatever the key
MapGetOldest(m, k) == m[1]
MapGet(m, k) == m[MapIndex(m, k)]
MapDelete(m, k) == SelectSeq(m, LAMBDA en : en.id # k)
MapSet(m, k, en) ==
    IF MapHas(m, k) THEN [m EXCEPT ![MapIndex(m, k)] = en] ELSE Append(m, en)

(***************************************************************************)
(* Promises returned by sendCommand                                        *)
(***************************************************************************)
NewCall(id, cmd) ==
    [id |-> id, cmd |-> cmd, state |-> "pending", value |-> 0, error |-> "",
     invoked |-> 0, removed |-> 0]

\* The promise's resolve function: counts the invocation; only the first
\* settlement of a promise takes effect.
Resolve(c, r) ==
    IF c.state = "pending"
    THEN [c EXCEPT !.state = "resolved", !.value = r, !.invoked = @ + 1]
    ELSE [c EXCEPT !.invoked = @ + 1]

\* The promise's reject function
Reject(c, msg) ==
    IF c.state = "pending"
    THEN [c EXCEPT !.state = "rejected", !.error = msg, !.invoked = @ + 1]
    ELSE [c EXCEPT !.invoked = @ + 1]

Removed(c) == [c EXCEPT !.removed = @ + 1]

TimeoutMessage(cmd) == "Command timeout: " \o cmd

BridgeInit ==
    /\ publisher = 0
    /\ subscriber = 0
    /\ subStatus = [g \in Gens |-> "none"]
    /\ subQuit = [g \in Gens |-> FALSE]
    /\ starts = 0
    /\ connected = FALSE
    /\ messageId = 0
    /\ pendingResponses = <<>>
    /\ timers = {}
    /\ calls = <<>>
    /\ published = <<>>
    /\ emitted = <<>>
    /\ logError = FALSE
    /\ stopPc = "idle"

(***************************************************************************)
(* BridgeServer.start and the subscriber client's events                   *)
(***************************************************************************)
\* start(), wrong: begins the ids again at 1
StartUpToResetsIds(max) ==
    /\ starts < max
    /\ stopPc = "idle"
    /\ subscriber = 0
    /\ starts' = starts + 1
    /\ publisher' = starts + 1
    /\ subscriber' = starts + 1
    /\ subStatus' = [subStatus EXCEPT ![starts + 1] = "connecting"]
    /\ emitted' = <<>>
    /\ logError' = FALSE
    /\ messageId' = 0
    /\ UNCHANGED <<subQuit, connected, pendingResponses, timers, calls,
                   published, stopPc>>
    /\ UNCHANGED <<dispatchVars, hostVars, apiVars>>

\* start(): creates both clients, which begin connecting, and registers the
\* handlers; the await of subscribe() is completed by SubscribeAck.
StartUpTo(max) ==
    /\ starts < max
    /\ stopPc = "idle"
    /\ subscriber = 0
    /\ starts' = starts + 1
    /\ publisher' = starts + 1
    /\ subscriber' = starts + 1
    /\ subStatus' = [subStatus EXCEPT ![starts + 1] = "connecting"]
    /\ emitted' = <<>>
    /\ logError' = FALSE
    /\ UNCHANGED <<subQuit, connected, messageId, pendingResponses, timers, calls,
                   published, stopPc>>
    /\ UNCHANGED <<dispatchVars, hostVars, apiVars>>

Start == StartUpTo(MaxStarts)

\* emit("connected") calls the listeners that waitForConnection registered
\* with once("connected", resolve): every waiting promise is resolved
OnceConnected(ws) == [k \in 1..Len(ws) |-> "resolved"]

\* subscriber.on("connect")
SubscriberConnect(g) ==
    /\ subStatus[g] \in {"connecting", "reconnecting"}
    /\ subStatus' = [subStatus EXCEPT ![g] = "connect"]
    /\ connected' = TRUE
    /\ emitted' = <<"connected">>
    /\ waits' = OnceConnected(waits)
    /\ UNCHANGED <<retryTimes, retryDelay>>
    /\ logError' = FALSE
    /\ UNCHANGED <<publisher, subscriber, subQuit, starts, messageId, pendingResponses,
                   timers, calls, published, stopPc>>
    /\ UNCHANGED <<dispatchVars, hostVars>>

\* The broker acknowledges the subscription to the events and responses channels
SubscribeAck(g) ==
    /\ subStatus[g] = "connect"
    /\ ~subQuit[g]
    /\ subStatus' = [subStatus EXCEPT ![g] = "ready"]
    /\ emitted' = <<>>
    /\ logError' = FALSE
    /\ UNCHANGED <<publisher, subscriber, subQuit, starts, connected, messageId,
                   pendingResponses, timers, calls, published, stopPc>>
    /\ UNCHANGED <<dispatchVars, hostVars, apiVars>>

\* The loop of clearPendingResponses, wrong: stops after the first entry
RejectAllFirstOnly(cs, m, reason) ==
    IF m = <<>> THEN cs
    ELSE [cs EXCEPT ![Head(m).call] = Removed(Reject(@, reason))]

RECURSIVE RejectAll(_, _, _)
\* The loop of clearPendingResponses over the entries m, in insertion order
RejectAll(cs, m, reason) ==
    IF m = <<>> THEN cs
    ELSE RejectAll([cs EXCEPT ![Head(m).call] = Removed(Reject(@, reason))], Tail(m), reason)

\* clearTimeout over the entries, wrong: leaves the timers armed
ClearTimeoutsKeepsArmed(ts, m) == ts

\* The timers left armed after clearTimeout on every entry of m
ClearTimeouts(ts, m) == {t \in ts : \A i \in 1..Len(m) : m[i].call # t.call}

\* clearPendingResponses(reason), wrong: cancels the timers and clears the
\* map without rejecting the calls
ClearWithoutReject(reason) ==
    /\ calls' = calls
    /\ timers' = ClearTimeouts(timers, pendingResponses)
    /\ pendingResponses' = <<>>

\* clearPendingResponses(reason)
ClearPendingResponses(reason) ==
    /\ calls' = RejectAll(calls, pendingResponses, reason)
    /\ timers' = ClearTimeouts(timers, pendingResponses)
    /\ pendingResponses' = <<>>

\* The client's status after its connection closed, wrong: the client retries
\* also after quit()
StatusAfterCloseRetries(g) == "reconnecting"

\* The client's status after its connection closed: retryStrategy returns a
\* delay for every attempt, so the client connects again, unless quit() was
\* called on it, which ends it.
StatusAfterClose(g) == IF subQuit[g] THEN "end" ELSE "reconnecting"

\* subscriber.on("close"): the connection closed or a connection attempt
\* failed; the client retries unless quit() was called on it.
SubscriberClose(g) ==
    /\ subStatus[g] \in {"connecting", "connect", "ready", "reconnecting"}
    /\ subStatus' = [subStatus EXCEPT ![g] = StatusAfterClose(g)]
    /\ connected' = FALSE
    /\ ClearPendingResponses("Connection closed")
    /\ emitted' = <<"disconnected">>
    /\ logError' = FALSE
    /\ UNCHANGED <<publisher, subscriber, subQuit, starts, messageId, published, stopPc>>
    /\ UNCHANGED <<dispatchVars, hostVars, apiVars>>

(***************************************************************************)
(* Inbound messages                                                        *)
(***************************************************************************)
\* handleResponse(data), wrong: settles the pending entry but leaves it registered
HandleResponseKeepsEntry(data) ==
    LET id == String(data.id) IN
    /\ logError' = (data.kind = "null")
    /\ IF data.kind = "null" \/ ~MapHas(pendingResponses, id)
       THEN UNCHANGED <<pendingResponses, timers, calls>>
       ELSE LET pending == MapGet(pendingResponses, id) IN
            /\ timers' = {t \in timers : t.call # pending.call}
            /\ pendingResponses' = pendingResponses
            /\ calls' = [calls EXCEPT ![pending.call] =
                   IF data.ok THEN Resolve(@, data.r)
                   ELSE Reject(@, IF data.e = Undefined THEN "Command failed" ELSE data.e)]

\* handleResponse(data), wrong: no early return when the id is not pending,
\* so reading pending.timeout throws and handleMessage's catch logs it
HandleResponseNoGuard(data) ==
    LET id == String(data.id) IN
    /\ logError' = (data.kind = "null" \/ ~MapHas(pendingResponses, id))
    /\ IF data.kind = "null" \/ ~MapHas(pendingResponses, id)
       THEN UNCHANGED <<pendingResponses, timers, calls>>
       ELSE LET pending == MapGet(pendingResponses, id) IN
            /\ timers' = {t \in timers : t.call # pending.call}
            /\ pendingResponses' = MapDelete(pendingResponses, id)
            /\ calls' = [calls EXCEPT ![pending.call] =
                   IF data.ok THEN Removed(Resolve(@, data.r))
                   ELSE Removed(Reject(@, IF data.e = Undefined THEN "Command failed" ELSE data.e))]

\* The text of the rejection, wrong: no default when the Response has no e
ErrorTextNoDefault(data) == data.e

\* The text of the rejection: data.e ?? "Command failed"
ErrorText(data) == IF data.e = Undefined THEN "Command failed" ELSE data.e

\* handleResponse(data).  Reading data.id of null throws; handleMessage's
\* catch logs it.
HandleResponse(data) ==
    LET id == String(data.id) IN
    /\ logError' = (data.kind = "null")
    /\ IF data.kind = "null" \/ ~MapHas(pendingResponses, id)
       THEN UNCHANGED <<pendingResponses, timers, calls>>
       ELSE LET pending == MapGet(pendingResponses, id) IN
            /\ timers' = {t \in timers : t.call # pending.call}
            /\ pendingResponses' = MapDelete(pendingResponses, id)
            /\ calls' = [calls EXCEPT ![pending.call] =
                   IF data.ok THEN Removed(Resolve(@, data.r))
                   ELSE Removed(Reject(@, ErrorText(data)))]

\* handleEvent(data), wrong: also settles the call whose id the message carries
HandleEventSettles(data) ==
    /\ emitted' = IF data.kind = "null" THEN <<>> ELSE <<"event", data.e>>
    /\ HandleResponse(data)

\* handleEvent(data): emits "event" and the event's own name.  Destructuring
\* null throws; handleMessage's catch logs it.
HandleEvent(data) ==
    /\ logError' = (data.kind = "null")
    /\ emitted' = IF data.kind = "null" THEN <<>> ELSE <<"event", data.e>>
    /\ UNCHANGED <<pendingResponses, timers, calls>>

\* The catch block of handleMessage, wrong: treats a message that cannot be
\* processed as a broken connection and rejects the pending calls
CatchClearsPending ==
    /\ logError' = TRUE
    /\ emitted' = <<>>
    /\ ClearPendingResponses("Connection closed")

\* The catch block of handleMessage after JSON.parse threw: logs the error
Catch ==
    /\ logError' = TRUE
    /\ emitted' = <<>>
    /\ UNCHANGED <<pendingResponses, timers, calls>>

\* subscriber.on("message") -> handleMessage(channel, raw)
HandleMessage(g, channel, msg) ==
    /\ subStatus[g] = "ready"
    /\ IF msg.kind = "malformed"
       THEN Catch
       ELSE IF channel = CHANNEL_EVENTS THEN HandleEvent(msg)
            ELSE IF channel = CHANNEL_RESPONSES
                 THEN /\ HandleResponse(msg)
                      /\ emitted' = <<>>
                 ELSE /\ logError' = FALSE
                      /\ emitted' = <<>>
                      /\ UNCHANGED <<pendingResponses, timers, calls>>
    /\ UNCHANGED <<publisher, subscriber, subStatus, subQuit, starts, connected, messageId,
                   published, stopPc>>
    /\ UNCHANGED <<dispatchVars, hostVars, apiVars>>

(***************************************************************************)
(* sendCommand, sendCommandNoWait, the deadline timer                      *)
(***************************************************************************)
\* generateMessageId(): the pre-incremented counter as a string
GenerateMessageId == NumberToString(messageId + 1)

\* The delay of a call's deadline timer: the timeout argument or its default
TimeoutOf(arg) == IF arg.given THEN arg.ms ELSE DefaultTimeout

\* sendCommand(command, args, timeout), wrong: publishes the Command without
\* registering the call or arming its timer
SendCommandPublishesOnly(cmd, args, timeout) ==
    /\ Len(calls) < MaxCalls
    /\ emitted' = <<>>
    /\ logError' = FALSE
    /\ IF publisher = 0 \/ ~connected
       THEN /\ calls' = Append(calls, [NewCall(<<>>, cmd) EXCEPT
                            !.state = "rejected", !.error = "Not connected to Redis"])
            /\ UNCHANGED <<messageId, pendingResponses, timers, published>>
       ELSE LET id == GenerateMessageId
            IN /\ messageId' = messageId + 1
               /\ calls' = Append(calls, NewCall(id, cmd))
               /\ UNCHANGED <<timers, pendingResponses>>
               /\ published' = Append(published,
                                      [c |-> cmd, a |-> args, id |-> id, idQuoted |-> FALSE,
                                       by |-> "sendCommand"])
    /\ UNCHANGED <<publisher, subscriber, subStatus, subQuit, starts, connected, stopPc>>
    /\ UNCHANGED <<dispatchVars, hostVars, apiVars>>

\* sendCommand(command, args, timeout), wrong: allocates the id before it tests
\* the connection
SendCommandAllocatesFirst(cmd, args, timeout) ==
    /\ Len(calls) < MaxCalls
    /\ emitted' = <<>>
    /\ logError' = FALSE
    /\ messageId' = messageId + 1
    /\ IF publisher = 0 \/ ~connected
       THEN /\ calls' = Append(calls, [NewCall(<<>>, cmd) EXCEPT
                            !.state = "rejected", !.error = "Not connected to Redis"])
            /\ UNCHANGED <<pendingResponses, timers, published>>
       ELSE LET id == GenerateMessageId
                c == Len(calls) + 1
            IN /\ calls' = Append(calls, NewCall(id, cmd))
               /\ timers' = timers \cup {[call |-> c, id |-> id, ms |-> TimeoutOf(timeout)]}
               /\ pendingResponses' = MapSet(pendingResponses, id, [id |-> id, call |-> c])
               /\ published' = Append(published,
                                      [c |-> cmd, a |-> args, id |-> id, idQuoted |-> FALSE,
                                       by |-> "sendCommand"])
    /\ UNCHANGED <<publisher, subscriber, subStatus, subQuit, starts, connected, stopPc>>
    /\ UNCHANGED <<dispatchVars, hostVars, apiVars>>

\* sendCommand(command, args, timeout)
SendCommand(cmd, args, timeout) ==
    /\ Len(calls) < MaxCalls
    /\ emitted' = <<>>
    /\ logError' = FALSE
    /\ IF publisher = 0 \/ ~connected
       THEN /\ calls' = Append(calls, [NewCall(<<>>, cmd) EXCEPT
                            !.state = "rejected", !.error = "Not connected to Redis"])
            /\ UNCHANGED <<messageId, pendingResponses, timers, published>>
       ELSE LET id == GenerateMessageId
                c == Len(calls) + 1
            IN /\ messageId' = messageId + 1
               /\ calls' = Append(calls, NewCall(id, cmd))
               /\ timers' = timers \cup {[call |-> c, id |-> id, ms |-> TimeoutOf(timeout)]}
               /\ pendingResponses' = MapSet(pendingResponses, id, [id |-> id, call |-> c])
               /\ published' = Append(published,
                                      [c |-> cmd, a |-> args, id |-> id, idQuoted |-> FALSE,
                                       by |-> "sendCommand"])
    /\ UNCHANGED <<publisher, subscriber, subStatus, subQuit, starts, connected, stopPc>>
    /\ UNCHANGED <<dispatchVars, hostVars, apiVars>>

\* sendCommandNoWait(command, args), wrong: allocates the id before it tests
\* the connection
SendCommandNoWaitAllocatesFirst(cmd, args) ==
    /\ messageId < MaxCalls
    /\ emitted' = <<>>
    /\ logError' = FALSE
    /\ messageId' = messageId + 1
    /\ IF publisher = 0 \/ ~connected
       THEN UNCHANGED published
       ELSE published' = Append(published,
                                [c |-> cmd, a |-> args, id |-> GenerateMessageId,
                                 idQuoted |-> TRUE,
                                 by |-> "sendCommandNoWait"])
    /\ UNCHANGED <<publisher, subscriber, subStatus, subQuit, starts, connected,
                   pendingResponses, timers, calls, stopPc>>
    /\ UNCHANGED <<dispatchVars, hostVars, apiVars>>

\* sendCommandNoWait(command, args): JSON.stringify of an object whose id is
\* the string returned by generateMessageId
SendCommandNoWait(cmd, args) ==
    /\ messageId < MaxCalls
    /\ emitted' = <<>>
    /\ logError' = FALSE
    /\ IF publisher = 0 \/ ~connected
       THEN UNCHANGED <<messageId, published>>
       ELSE /\ messageId' = messageId + 1
            /\ published' = Append(published,
                                   [c |-> cmd, a |-> args, id |-> GenerateMessageId,
                                    idQuoted |-> TRUE,
                                    by |-> "sendCommandNoWait"])
    /\ UNCHANGED <<publisher, subscriber, subStatus, subQuit, starts, connected,
                   pendingResponses, timers, calls, stopPc>>
    /\ UNCHANGED <<dispatchVars, hostVars, apiVars>>

\* The setTimeout callback of sendCommand, wrong: rejects but leaves the entry
TimerFireKeepsEntry(t) ==
    /\ t \in timers
    /\ timers' = timers \ {t}
    /\ pendingResponses' = pendingResponses
    /\ calls' = [calls EXCEPT ![t.call] = Reject(@, TimeoutMessage(@.cmd))]
    /\ emitted' = <<>>
    /\ logError' = FALSE
    /\ UNCHANGED <<publisher, subscriber, subStatus, subQuit, starts, connected, messageId,
                   published, stopPc>>
    /\ UNCHANGED <<dispatchVars, hostVars, apiVars>>

\* The setTimeout callback of sendCommand
TimerFire(t) ==
    /\ t \in timers
    /\ timers' = timers \ {t}
    /\ pendingResponses' = MapDelete(pendingResponses, t.id)
    /\ calls' = [calls EXCEPT ![t.call] =
            LET c == Reject(@, TimeoutMessage(@.cmd))
            IN IF MapHas(pendingResponses, t.id) THEN Removed(c) ELSE c]
    /\ emitted' = <<>>
    /\ logError' = FALSE
    /\ UNCHANGED <<publisher, subscriber, subStatus, subQuit, starts, connected, messageId,
                   published, stopPc>>
    /\ UNCHANGED <<dispatchVars, hostVars, apiVars>>

(***************************************************************************)
(* BridgeServer.stop, one action per await                                 *)
(***************************************************************************)
\* stop() up to its first await: clearPendingResponses, then unsubscribe()
StopBegin ==
    /\ stopPc = "idle"
    /\ ClearPendingResponses("Server stopped")
    /\ stopPc' = "unsubscribe"
    /\ emitted' = <<>>
    /\ logError' = FALSE
    /\ UNCHANGED <<publisher, subscriber, subStatus, subQuit, starts, connected, messageId,
                   published>>
    /\ UNCHANGED <<dispatchVars, hostVars, apiVars>>

\* unsubscribe() acknowledged; stop() calls subscriber.quit()
StopUnsubscribed ==
    /\ stopPc = "unsubscribe"
    /\ subscriber # 0 => subStatus[subscriber] \in {"connect", "ready"}
    /\ IF subscriber # 0
       THEN /\ subStatus' = [subStatus EXCEPT ![subscriber] = "connect"]
            /\ subQuit' = [subQuit EXCEPT ![subscriber] = TRUE]
       ELSE UNCHANGED <<subStatus, subQuit>>
    /\ stopPc' = "subscriberQuit"
    /\ emitted' = <<>>
    /\ logError' = FALSE
    /\ UNCHANGED <<publisher, subscriber, starts, connected, messageId, pendingResponses,
                   timers, calls, published>>
    /\ UNCHANGED <<dispatchVars, hostVars, apiVars>>

\* subscriber.quit() acknowledged; stop() calls publisher.quit()
StopSubscriberQuit ==
    /\ stopPc = "subscriberQuit"
    /\ stopPc' = "publisherQuit"
    /\ emitted' = <<>>
    /\ logError' = FALSE
    /\ UNCHANGED <<publisher, subscriber, subStatus, subQuit, starts, connected, messageId,
                   pendingResponses, timers, calls, published>>
    /\ UNCHANGED <<dispatchVars, hostVars, apiVars>>

\* publisher.quit() acknowledged; stop() drops both clients
StopEnd ==
    /\ stopPc = "publisherQuit"
    /\ subscriber' = 0
    /\ publisher' = 0
    /\ connected' = FALSE
    /\ stopPc' = "idle"
    /\ emitted' = <<>>
    /\ logError' = FALSE
    /\ UNCHANGED <<subStatus, subQuit, starts, messageId, pendingResponses, timers, calls,
                   published>>
    /\ UNCHANGED <<dispatchVars, hostVars, apiVars>>

BridgeNext ==
    \/ Start
    \/ \E g \in Gens : SubscriberConnect(g)
    \/ \E g \in Gens : SubscribeAck(g)
    \/ \E g \in Gens : SubscriberClose(g)
    \/ \E g \in Gens, ch \in Channels : \E m \in MessagesOn(ch) : HandleMessage(g, ch, m)
    \/ \E cmd \in Commands, to \in TimeoutArgs : SendCommand(cmd, NoArgs, to)
    \/ \E cmd \in Commands : SendCommandNoWait(cmd, NoArgs)
    \/ \E t \in timers : TimerFire(t)
    \/ StopBegin
    \/ StopUnsubscribed
    \/ StopSubscriberQuit
    \/ StopEnd

(***************************************************************************)
(* OpenMP: the handlers map, on/once/off                                   *)
(***************************************************************************)
\* The event names that handlers are registered for, and those that the
\* dispatcher's runs dispatch
EventNames == {"X", "Y"}
Events == {"X"}
Fns == {1, 2}                         \* the handler functions of user code
WrapperFn(w) == -w                    \* the function created by the w-th once()
IsWrapper(fn) == fn < 0
WrapperOf(fn) == -fn
OnceFns == {2}                        \* the handler functions given to once()

\* A JavaScript Set: an entry list in insertion order; delete empties the
\* entry in place, so that a running iterator skips it, and add appends.
SetHas(s, fn) == \E i \in 1..Len(s) : s[i] = fn
SetAdd(s, fn) == IF SetHas(s, fn) THEN s ELSE Append(s, fn)
SetDelete(s, fn) == [i \in 1..Len(s) |-> IF s[i] = fn THEN 0 ELSE s[i]]
SetSize(s) == Cardinality({i \in 1..Len(s) : s[i] # 0})
\* The iterator's next entry after position p, 0 when exhausted
NextLive(s, p) ==
    IF \E q \in (p + 1)..Len(s) : s[q] # 0
    THEN CHOOSE q \in (p + 1)..Len(s) : s[q] # 0 /\ \A q2 \in (p + 1)..(q - 1) : s[q2] = 0
    ELSE 0

\* this.handlers.get(event)?.delete(handler), wrong: deletes the handler from
\* the Set of every event
DeleteHandlerEverywhere(hs, ss, ev, fn) == [k \in 1..Len(ss) |-> SetDelete(ss[k], fn)]

\* this.handlers.get(event)?.delete(handler) on the Set objects ss
DeleteHandler(hs, ss, ev, fn) ==
    IF hs[ev] = 0 THEN ss ELSE [ss EXCEPT ![hs[ev]] = SetDelete(@, fn)]

RECURSIVE EntriesAdded(_)
\* The number of entries ever added to the Set objects ss
EntriesAdded(ss) == IF ss = <<>> THEN 0 ELSE Len(Head(ss)) + EntriesAdded(Tail(ss))

DispatchInit ==
    /\ handlers = [ev \in EventNames |-> 0]
    /\ sets = <<>>
    /\ wrappers = <<>>
    /\ dispatches = EmptyBag
    /\ fired = <<>>
    /\ consoleError = FALSE
    /\ waits = <<>>
    /\ retryTimes = 0
    /\ retryDelay = 0

\* A registration of fn for ev adds no entry beyond the max-th of all Sets
CanRegister(ev, fn, max) ==
    LET old == IF handlers[ev] = 0 THEN <<>> ELSE sets[handlers[ev]]
    IN ~SetHas(old, fn) => EntriesAdded(sets) < max

\* The registration common to on() and once(): handler fn is added to the
\* event's Set, which is created when the event has none.
Register(ev, fn) ==
    LET fresh == handlers[ev] = 0
        sid == IF fresh THEN Len(sets) + 1 ELSE handlers[ev]
        old == IF fresh THEN <<>> ELSE sets[sid]
    IN /\ handlers' = [handlers EXCEPT ![ev] = sid]
       /\ sets' = IF fresh THEN Append(sets, <<fn>>)
                  ELSE [sets EXCEPT ![sid] = SetAdd(@, fn)]

\* on(event, handler)
On(ev, fn) ==
    /\ Register(ev, fn)
    /\ consoleError' = FALSE
    /\ UNCHANGED <<wrappers, dispatches, fired>>
    /\ UNCHANGED <<bridgeVars, hostVars, apiVars>>

\* once(event, handler): registers a new wrappedHandler
Once(ev, fn) ==
    /\ wrappers' = Append(wrappers, [ev |-> ev, inner |-> fn])
    /\ fired' = Append(fired, 0)
    /\ Register(ev, WrapperFn(Len(wrappers) + 1))
    /\ consoleError' = FALSE
    /\ UNCHANGED dispatches
    /\ UNCHANGED <<bridgeVars, hostVars, apiVars>>

\* off(event, handler)
Off(ev, fn) ==
    /\ sets' = DeleteHandler(handlers, sets, ev, fn)
    /\ consoleError' = FALSE
    /\ UNCHANGED <<handlers, wrappers, dispatches, fired>>
    /\ UNCHANGED <<bridgeVars, hostVars, apiVars>>

\* off(event): removes the event's entry, not the entries of its Set
OffAll(ev) ==
    /\ handlers' = [handlers EXCEPT ![ev] = 0]
    /\ consoleError' = FALSE
    /\ UNCHANGED <<sets, wrappers, dispatches, fired>>
    /\ UNCHANGED <<bridgeVars, hostVars, apiVars>>

\* The function returned by on(event, handler), which once() returns for its
\* wrappedHandler.  For a handler of user code it does what off(event,
\* handler) does, which user code can call at any time.
Unsubscribe(ev, fn) ==
    /\ IsWrapper(fn) => (WrapperOf(fn) <= Len(wrappers) /\ wrappers[WrapperOf(fn)].ev = ev)
    /\ sets' = DeleteHandler(handlers, sets, ev, fn)
    /\ consoleError' = FALSE
    /\ UNCHANGED <<handlers, wrappers, dispatches, fired>>
    /\ UNCHANGED <<bridgeVars, hostVars, apiVars>>

(***************************************************************************)
(* OpenMP.dispatchEvent                                                    *)
(***************************************************************************)
\* What `await handler(...)` yields: the handler's value, or a throw when
\* the handler threw or its promise rejected
Results == {"false", "true", "undefined", "throw"}
\* How a handler that does not throw synchronously returns: with a value, or
\* with a promise that settles later
Outcomes == {"sync", "async"}

\* result === false, wrong: any falsy result
StopsChainFalsy(res) == res \in {"false", "undefined"}
\* result === false
StopsChain(res) == res = "false"

\* The calls in flight are not told apart: one call of the bag b moves from
\* record d to record e
Replace(b, d, e) == (b (-) SetToBag({d})) (+) SetToBag({e})

\* The state that one invocation of a handler changes
InvokeState(ss, fd) == [sets |-> ss, fired |-> fd]

\* Calling the handler at position pos of Set sid.  A wrappedHandler first
\* deletes itself from the Set that the event has now, then calls its handler.
Invoke(st, sid, pos) ==
    LET fn == st.sets[sid][pos]
    IN IF IsWrapper(fn)
       THEN InvokeState(DeleteHandler(handlers, st.sets, wrappers[WrapperOf(fn)].ev, fn),
                        [st.fired EXCEPT ![WrapperOf(fn)] = @ + 1])
       ELSE st

\* The dispatch after it called the handler at position q and awaits it
Awaiting(d, q, outcome) ==
    [d EXCEPT !.cursor = q, !.log = Append(@, [pos |-> q]),
              !.state = IF outcome = "async" THEN "pending" ELSE "ready"]

\* The for-of loop, wrong: no try/catch, a handler that throws ends the dispatch
LoopNoCatch(st, d, p, throws, outcome) ==
    LET q == NextLive(st.sets[d.set], p)
    IN IF q = 0 THEN [st |-> st, d |-> [d EXCEPT !.state = "exhausted"]]
       ELSE IF throws > 0
            THEN [st |-> Invoke(st, d.set, q),
                  d |-> [d EXCEPT !.cursor = q, !.log = Append(@, [pos |-> q]),
                                  !.state = "exhausted"]]
            ELSE [st |-> Invoke(st, d.set, q), d |-> Awaiting(d, q, outcome)]

RECURSIVE Loop(_, _, _, _, _)
\* The for-of loop of dispatchEvent from iterator position p up to its next
\* await: the next `throws` handlers throw synchronously and are caught, the
\* handler after them returns (`outcome`) and is awaited.
Loop(st, d, p, throws, outcome) ==
    LET q == NextLive(st.sets[d.set], p)
    IN IF q = 0 THEN [st |-> st, d |-> [d EXCEPT !.state = "exhausted"]]
       ELSE IF throws > 0
            THEN Loop(Invoke(st, d.set, q),
                      [d EXCEPT !.cursor = q, !.log = Append(@, [pos |-> q])],
                      q, throws - 1, outcome)
            ELSE [st |-> Invoke(st, d.set, q), d |-> Awaiting(d, q, outcome)]

\* The number of handlers left for an iterator at position p
Remaining(s, p) == Cardinality({q \in (p + 1)..Len(s) : s[q] # 0})

\* The inputs of a run of the loop: how many handlers throw synchronously
\* and how the handler after them returns, if there is one
LoopInputs(s, p, throws, outcome) ==
    /\ throws <= Remaining(s, p)
    /\ throws = Remaining(s, p) => outcome = "sync"

\* dispatchEvent(eventName, ...) up to its first await
DispatchStart(ev, throws, outcome) ==
    /\ BagCardinality(dispatches) < MaxDispatches
    /\ handlers[ev] # 0
    /\ SetSize(sets[handlers[ev]]) # 0
    /\ LoopInputs(sets[handlers[ev]], 0, throws, outcome)
    /\ consoleError' = (throws > 0)
    /\ LET d0 == [ev |-> ev, set |-> handlers[ev], cursor |-> 0, state |-> "ready",
                  log |-> <<>>]
           run == Loop(InvokeState(sets, fired), d0, 0, throws, outcome)
       IN /\ dispatches' = dispatches (+) SetToBag({run.d})
          /\ sets' = run.st.sets
          /\ fired' = run.st.fired
    /\ UNCHANGED <<handlers, wrappers>>
    /\ UNCHANGED <<bridgeVars, hostVars, apiVars>>

\* dispatchEvent(eventName, ...) for an event without handlers: returns at once
DispatchNoHandlers(ev) ==
    /\ IF handlers[ev] = 0 THEN TRUE ELSE SetSize(sets[handlers[ev]]) = 0
    /\ consoleError' = FALSE
    /\ UNCHANGED <<handlers, sets, wrappers, dispatches, fired>>
    /\ UNCHANGED <<bridgeVars, hostVars, apiVars>>

\* The promise returned by the awaited handler settles
HandlerSettles(d) ==
    /\ BagIn(d, dispatches)
    /\ d.state = "pending"
    /\ dispatches' = Replace(dispatches, d, [d EXCEPT !.state = "ready"])
    /\ consoleError' = FALSE
    /\ UNCHANGED <<handlers, sets, wrappers, fired>>
    /\ UNCHANGED <<bridgeVars, hostVars, apiVars>>

\* `await` resumes with the handler's result, wrong: resumes without it
ResultAvailableNoAwait(d) == d.state \in {"ready", "pending"}
\* `await` resumes with the handler's result
ResultAvailable(d) == d.state = "ready"

\* dispatchEvent resumes after an await that yields res: break on false,
\* else the next handler
DispatchResume(d, res, throws, outcome) ==
    /\ BagIn(d, dispatches)
    /\ d.state \in {"ready", "pending"}
    /\ ResultAvailable(d)
    /\ IF StopsChain(res)
       THEN /\ throws = 0 /\ outcome = "sync"
            /\ dispatches' = Replace(dispatches, d, [d EXCEPT !.state = "stopped"])
            /\ consoleError' = FALSE
            /\ UNCHANGED <<sets, fired>>
       ELSE LET run == Loop(InvokeState(sets, fired), d, d.cursor, throws, outcome)
            IN /\ LoopInputs(sets[d.set], d.cursor, throws, outcome)
               /\ consoleError' = (res = "throw" \/ throws > 0)
               /\ dispatches' = Replace(dispatches, d, run.d)
               /\ sets' = run.st.sets
               /\ fired' = run.st.fired
    /\ UNCHANGED <<handlers, wrappers>>
    /\ UNCHANGED <<bridgeVars, hostVars, apiVars>>

DispatchNext ==
    \/ \E ev \in Events, fn \in Fns : CanRegister(ev, fn, MaxEntries) /\ On(ev, fn)
    \/ \E ev \in Events, fn \in OnceFns :
            CanRegister(ev, WrapperFn(Len(wrappers) + 1), MaxEntries) /\ Once(ev, fn)
    \/ \E ev \in Events, fn \in Fns : Off(ev, fn)
    \/ \E ev \in Events : OffAll(ev)
    \/ \E ev \in Events, w \in 1..MaxEntries : Unsubscribe(ev, WrapperFn(w))
    \/ \E ev \in Events, n \in 0..MaxEntries, o \in Outcomes : DispatchStart(ev, n, o)
    \/ \E ev \in Events : DispatchNoHandlers(ev)
    \/ \E d \in BagToSet(dispatches) : HandlerSettles(d)
    \/ \E d \in BagToSet(dispatches), res \in Results, n \in 0..MaxEntries, o \in Outcomes :
            DispatchResume(d, res, n, o)

(***************************************************************************)
(* Texts on the wire.  A text is a sequence of symbols: a symbol is one    *)
(* character, or a command name or word that holds none of the characters  *)
(* the decoders look for ("Ping", "hello").  Positions count from 0 as in  *)
(* the filterscript; texts are shorter than the filterscript's buffers.    *)
(***************************************************************************)

NUL == ""                             \* the terminator read behind the last symbol
QUOTE == "\""
BACKSLASH == "\\"
NEWLINE == "\n"
TAB == "\t"
CR == "\r"
DigitChars == <<"0", "1", "2", "3", "4", "5", "6", "7", "8", "9">>
IsDigit(c) == \E k \in 1..10 : DigitChars[k] = c
DigitValue(c) == (CHOOSE k \in 1..10 : DigitChars[k] = c) - 1

\* data[i]
CharAt(s, i) == IF i >= 0 /\ i < Len(s) THEN s[i + 1] ELSE NUL

RECURSIVE Concat(_)
Concat(ss) == IF ss = <<>> THEN <<>> ELSE Head(ss) \o Concat(Tail(ss))

\* The characters of a digit sequence such as a message id
DigitText(ds) == [k \in 1..Len(ds) |-> DigitChars[ds[k] + 1]]

\* The values of a command argument: a number or a text
IntArg(n) == [t |-> "int", n |-> n, f |-> 0, s |-> <<>>]
FloatArg(n, f) == [t |-> "float", n |-> n, f |-> f, s |-> <<>>]
TextArg(s) == [t |-> "text", n |-> 0, f |-> 0, s |-> s]

\* JSON.stringify of a number: an integer, or units and tenths
JsonNumber(v) ==
    LET digits == DigitText(NumberToString(IF v.n < 0 THEN -v.n ELSE v.n))
        whole == IF v.n < 0 THEN <<"-">> \o digits ELSE digits
    IN IF v.t = "float" /\ v.f # 0 THEN whole \o <<".", DigitChars[v.f + 1]>> ELSE whole

\* JSON.stringify of one character of a string
JsonEscape(c) ==
    CASE c = QUOTE -> <<BACKSLASH, QUOTE>>
      [] c = BACKSLASH -> <<BACKSLASH, BACKSLASH>>
      [] c = NEWLINE -> <<BACKSLASH, "n">>
      [] c = CR -> <<BACKSLASH, "r">>
      [] c = TAB -> <<BACKSLASH, "t">>
      [] OTHER -> <<c>>

\* JSON.stringify of a string
JsonString(s) == <<QUOTE>> \o Concat([k \in 1..Len(s) |-> JsonEscape(s[k])]) \o <<QUOTE>>

JsonValue(v) == IF v.t = "text" THEN JsonString(v.s) ELSE JsonNumber(v)

\* JSON.stringify(args) of a flat array
JsonArray(a) ==
    <<"[">> \o Concat([k \in 1..Len(a) |->
                        IF k = 1 THEN JsonValue(a[k]) ELSE <<",">> \o JsonValue(a[k])])
            \o <<"]">>

\* The payload of sendCommand: the template literal with the id spliced in bare
TemplatePayload(cmd, a, id) ==
    <<"{", QUOTE, "c", QUOTE, ":", QUOTE, cmd, QUOTE, ",", QUOTE, "a", QUOTE, ":">>
        \o JsonArray(a) \o <<",", QUOTE, "i", "d", QUOTE, ":">> \o DigitText(id) \o <<"}">>

\* The payload of sendCommandNoWait: JSON.stringify({ id, c, a }) with a string id
StringifyPayload(cmd, a, id) ==
    <<"{", QUOTE, "i", "d", QUOTE, ":">> \o JsonString(DigitText(id))
        \o <<",", QUOTE, "c", QUOTE, ":">> \o JsonString(<<cmd>>)
        \o <<",", QUOTE, "a", QUOTE, ":">> \o JsonArray(a) \o <<"}">>

\* The text of an entry of `published`
Payload(p) ==
    IF p.idQuoted THEN StringifyPayload(p.c, p.a, p.id) ELSE TemplatePayload(p.c, p.a, p.id)

(***************************************************************************)
(* The string natives the filterscript uses                                *)
(***************************************************************************)
MatchesAt(s, pat, i) ==
    /\ i + Len(pat) <= Len(s)
    /\ \A k \in 1..Len(pat) : s[i + k] = pat[k]

\* strfind(string, sub, false, pos): the first position from pos on, or -1
strfind(s, pat, pos) ==
    IF \E i \in pos..(Len(s) - 1) : MatchesAt(s, pat, i)
    THEN CHOOSE i \in pos..(Len(s) - 1) :
            /\ MatchesAt(s, pat, i)
            /\ \A j \in pos..(i - 1) : ~MatchesAt(s, pat, j)
    ELSE -1

\* strmid(dest, source, start, end): the characters from start up to end
strmid(s, start, end) == SubSeq(s, start + 1, IF end < Len(s) THEN end ELSE Len(s))

RECURSIVE DigitsValue(_, _, _)
\* The value of the run of digits of s from position i on, after acc
DigitsValue(s, i, acc) ==
    IF IsDigit(CharAt(s, i)) THEN DigitsValue(s, i + 1, 10 * acc + DigitValue(CharAt(s, i)))
    ELSE acc

RECURSIVE DigitsEnd(_, _)
\* while (data[endPos] >= '0' && data[endPos] <= '9') endPos++
DigitsEnd(s, i) == IF IsDigit(CharAt(s, i)) THEN DigitsEnd(s, i + 1) ELSE i

\* strval(string), wrong: no sign is read
strvalUnsigned(s) == DigitsValue(s, 0, 0)
\* strval(string): an optional sign and the digits that follow, 0 without digits
strval(s) ==
    IF CharAt(s, 0) = "-" THEN -DigitsValue(s, 1, 0) ELSE DigitsValue(s, 0, 0)

\* floatstr(string): strval's number and the first digit behind a decimal point
floatstr(s) ==
    LET dot == DigitsEnd(s, IF CharAt(s, 0) = "-" THEN 1 ELSE 0)
    IN [n |-> strval(s),
        f |-> IF CharAt(s, dot) = "." /\ IsDigit(CharAt(s, dot + 1))
              THEN DigitValue(CharAt(s, dot + 1)) ELSE 0]

(***************************************************************************)
(* bridge.pwn: the argument decoders                                       *)
(***************************************************************************)
NoElement == [found |-> FALSE, text |-> <<>>]

RECURSIVE ScanElement(_, _, _, _, _, _)
\* The loop of Bridge_ParseIntArg and Bridge_ParseFloatArg from position i on:
\* the characters of the element at position index, as the loop delimits them
ScanElement(args, index, i, depth, argIndex, start) ==
    LET c == CharAt(args, i)
        st == IF c # "," /\ c # " " /\ start = -1 THEN i ELSE start
    IN IF c = NUL THEN NoElement
       ELSE IF c = "[" \/ c = "{"
            THEN ScanElement(args, index, i + 1, depth + 1, argIndex, start)
       ELSE IF c = "]" \/ c = "}"
            THEN ScanElement(args, index, i + 1, depth - 1, argIndex, start)
       ELSE IF depth # 1
            THEN ScanElement(args, index, i + 1, depth, argIndex, start)
       ELSE IF (c = "," \/ CharAt(args, i + 1) = "]") /\ st # -1
            THEN IF argIndex = index
                 THEN [found |-> TRUE,
                       text |-> strmid(args, st, IF c = "," THEN i ELSE i + 1)]
                 ELSE ScanElement(args, index, i + 1, depth, argIndex + 1, -1)
       ELSE ScanElement(args, index, i + 1, depth, argIndex, st)

\* Bridge_ParseIntArg(args, index)
Bridge_ParseIntArg(args, index) ==
    LET el == ScanElement(args, index, 0, 0, 0, -1)
    IN IF el.found THEN strval(el.text) ELSE 0

\* Bridge_ParseFloatArg(args, index)
Bridge_ParseFloatArg(args, index) ==
    LET el == ScanElement(args, index, 0, 0, 0, -1)
    IN IF el.found THEN floatstr(el.text) ELSE [n |-> 0, f |-> 0]

\* The closing quote is found: the characters between the quotes, as they are
CopyRaw(args, start, i) == strmid(args, start, i)

RECURSIVE ScanString(_, _, _, _, _, _, _)
\* The loop of Bridge_ParseStringArg from position i on: what it leaves in output
ScanString(args, index, i, depth, argIndex, inString, start) ==
    LET c == CharAt(args, i)
    IN IF c = NUL THEN <<>>
       ELSE IF c = QUOTE /\ (i = 0 \/ CharAt(args, i - 1) # BACKSLASH)
            THEN IF ~inString
                 THEN ScanString(args, index, i + 1, depth, argIndex, TRUE,
                                 IF argIndex = index THEN i + 1 ELSE start)
                 ELSE IF argIndex = index /\ start # -1
                      THEN CopyRaw(args, start, i)
                      ELSE ScanString(args, index, i + 1, depth, argIndex, FALSE, start)
       ELSE IF inString
            THEN ScanString(args, index, i + 1, depth, argIndex, inString, start)
       ELSE IF c = "[" \/ c = "{"
            THEN ScanString(args, index, i + 1, depth + 1, argIndex, inString, start)
       ELSE IF c = "]" \/ c = "}"
            THEN ScanString(args, index, i + 1, depth - 1, argIndex, inString, start)
       ELSE IF c = "," /\ depth = 1
            THEN ScanString(args, index, i + 1, depth, argIndex + 1, inString, start)
       ELSE ScanString(args, index, i + 1, depth, argIndex, inString, start)

\* Bridge_ParseStringArg(args, index, output, maxlen)
Bridge_ParseStringArg(args, index) == ScanString(args, index, 0, 0, 0, FALSE, -1)

(***************************************************************************)
(* bridge.pwn: Bridge_ExecuteCommand and Bridge_OnCommand                  *)
(***************************************************************************)
\* The names of the dispatch table that the model keeps, in the table's order
CommandTable ==
    <<"SendClientMessage", "SendClientMessageToAll", "GameTextForPlayer",
      "SetPlayerHealth", "Ping", "PingWithPayload">>

\* !strcmp(command, name): equal texts; the native also returns 0 for an empty
\* text on builds that keep that behaviour (emptyEqual)
StrcmpZero(command, name, emptyEqual) ==
    \/ command = <<name>>
    \/ command = <<>> /\ emptyEqual

\* A call of a native with its decoded arguments
Native(name, a) == [name |-> name, a |-> a]

\* No entry of the table matches, wrong: the result is -1
UnknownCommandMinusOne(command) == [natives |-> <<>>, result |-> -1]
\* No entry of the table matches: "Unknown command" is printed, the result is 0
UnknownCommand(command) == [natives |-> <<>>, result |-> 0]

\* Bridge_ExecuteCommand(command, args): the natives it calls and what it
\* returns; ret is what the native (or GetTickCount) returns
Bridge_ExecuteCommand(command, args, ret, emptyEqual) ==
    LET int(k) == IntArg(Bridge_ParseIntArg(args, k))
        float(k) == LET v == Bridge_ParseFloatArg(args, k) IN FloatArg(v.n, v.f)
        text(k) == TextArg(Bridge_ParseStringArg(args, k))
    IN IF StrcmpZero(command, "SendClientMessage", emptyEqual)
       THEN [natives |-> <<Native("SendClientMessage", <<int(0), int(1), text(2)>>)>>,
             result |-> ret]
       ELSE IF StrcmpZero(command, "SendClientMessageToAll", emptyEqual)
       THEN [natives |-> <<Native("SendClientMessageToAll", <<int(0), text(1)>>)>>,
             result |-> ret]
       ELSE IF StrcmpZero(command, "GameTextForPlayer", emptyEqual)
       THEN [natives |-> <<Native("GameTextForPlayer", <<int(0), text(1), int(2), int(3)>>)>>,
             result |-> ret]
       ELSE IF StrcmpZero(command, "SetPlayerHealth", emptyEqual)
       THEN [natives |-> <<Native("SetPlayerHealth", <<int(0), float(1)>>)>>,
             result |-> ret]
       ELSE IF StrcmpZero(command, "Ping", emptyEqual)
       THEN [natives |-> <<>>, result |-> ret]
       ELSE IF StrcmpZero(command, "PingWithPayload", emptyEqual)
       THEN [natives |-> <<>>, result |-> Bridge_ParseIntArg(args, 0)]
       ELSE UnknownCommand(command)

RECURSIVE ArrayEnd(_, _, _, _)
\* The for loop of Bridge_OnCommand from position i on: endPos
ArrayEnd(data, i, depth, endPos) ==
    LET c == CharAt(data, i)
    IN IF c = NUL THEN endPos
       ELSE IF c = "[" THEN ArrayEnd(data, i + 1, depth + 1, endPos)
       ELSE IF c = "]"
            THEN IF depth - 1 = 0 THEN i + 1 ELSE ArrayEnd(data, i + 1, depth - 1, endPos)
       ELSE ArrayEnd(data, i + 1, depth, endPos)

\* The "c" field: command
ExtractCommand(data) ==
    LET cPos == strfind(data, <<QUOTE, "c", QUOTE, ":", QUOTE>>, 0)
        endPos == strfind(data, <<QUOTE>>, cPos + 5)
    IN IF cPos # -1 /\ endPos # -1 THEN strmid(data, cPos + 5, endPos) ELSE <<>>

\* The "id" field, wrong: one digit is taken
ExtractIdOneDigit(data) ==
    LET idPos == strfind(data, <<QUOTE, "i", "d", QUOTE, ":">>, 0)
    IN IF idPos # -1 THEN strmid(data, idPos + 5, idPos + 6) ELSE <<>>
\* The "id" field: msgId
ExtractId(data) ==
    LET idPos == strfind(data, <<QUOTE, "i", "d", QUOTE, ":">>, 0)
    IN IF idPos # -1 THEN strmid(data, idPos + 5, DigitsEnd(data, idPos + 5)) ELSE <<>>

\* The "a" field: args
ExtractArgs(data) ==
    LET aPos == strfind(data, <<QUOTE, "a", QUOTE, ":", "[">>, 0)
    IN IF aPos # -1 THEN strmid(data, aPos + 4, ArrayEnd(data, aPos + 4, 0, aPos + 4))
       ELSE <<>>

\* format(..., "%d", result)
FormatD(n) == JsonNumber(IntArg(n))

\* format(response, ..., "{\"ok\":true,\"r\":%d,\"id\":%s}", result, msgId)
FormatResponse(result, msgId) ==
    <<"{", QUOTE, "o", "k", QUOTE, ":", "t", "r", "u", "e", ",", QUOTE, "r", QUOTE, ":">> \o FormatD(result)
        \o <<",", QUOTE, "i", "d", QUOTE, ":">> \o msgId \o <<"}">>

\* The publications of one Bridge_OnCommand run, wrong: none without a name
PublishesUnlessNameless(command, response) ==
    IF command = <<>> THEN <<>> ELSE <<response>>
\* The publications of one Bridge_OnCommand run: the one Redis_Publish at its end
Publishes(command, response) == <<response>>

\* Bridge_OnCommand(channel, data): its locals and what it publishes
Bridge_OnCommand(data, ret, emptyEqual) ==
    LET command == ExtractCommand(data)
        msgId == ExtractId(data)
        args == ExtractArgs(data)
        run == Bridge_ExecuteCommand(command, args, ret, emptyEqual)
        response == FormatResponse(run.result, msgId)
    IN [data |-> data, command |-> command, msgId |-> msgId, args |-> args,
        natives |-> run.natives, result |-> run.result,
        out |-> Publishes(command, response)]

(***************************************************************************)
(* JSON.parse of the texts the filterscript publishes on omp:responses     *)
(***************************************************************************)
NoNumber == [ok |-> FALSE, n |-> 0, end |-> 0]

\* A JSON integer literal at position i: an optional minus sign, then 0 or a
\* digit run that does not begin with 0
JsonInt(s, i) ==
    LET first == IF CharAt(s, i) = "-" THEN i + 1 ELSE i
        end == DigitsEnd(s, first)
    IN IF end = first \/ (CharAt(s, first) = "0" /\ end > first + 1) THEN NoNumber
       ELSE [ok |-> TRUE,
             n |-> IF first = i THEN DigitsValue(s, first, 0) ELSE -DigitsValue(s, first, 0),
             end |-> end]

\* JSON.parse(raw) of a text of the form {"ok":true,"r":<int>,"id":<int>};
\* other texts of that channel are inputs of HandleMessage (Messages)
JsonParse(raw) ==
    LET head == <<"{", QUOTE, "o", "k", QUOTE, ":", "t", "r", "u", "e", ",", QUOTE, "r", QUOTE, ":">>
        mid == <<",", QUOTE, "i", "d", QUOTE, ":">>
        r == JsonInt(raw, Len(head))
        id == JsonInt(raw, r.end + Len(mid))
    IN IF /\ MatchesAt(raw, head, 0)
          /\ r.ok
          /\ MatchesAt(raw, mid, r.end)
          /\ id.ok
          /\ CharAt(raw, id.end) = "}"
          /\ Len(raw) = id.end + 1
       THEN [kind |-> "obj", id |-> NumId(id.n), ok |-> TRUE, r |-> r.n, e |-> Undefined]
       ELSE Malformed

(***************************************************************************)
(* bridge.pwn: the filterscript's connection and its command callback      *)
(***************************************************************************)
\* A command on its way to the filterscript: the text, and what was encoded
WireItem(p) == [sent |-> p, data |-> Payload(p)]
RawItem(text) ==
    [sent |-> [c |-> "", a |-> <<>>, id |-> <<>>, idQuoted |-> FALSE, by |-> "raw"],
     data |-> text]

\* hostLast before the first Bridge_OnCommand run
NoRun ==
    [sent |-> RawItem(<<>>).sent, ran |-> FALSE, emptyEqual |-> FALSE,
     run |-> [data |-> <<>>, command |-> <<>>, msgId |-> <<>>, args |-> <<>>,
              natives |-> <<>>, result |-> 0, out |-> <<>>]]

\* No Bridge_EscapeJSON call is in progress, and no call has returned
NoEscapeCall == [input |-> <<>>, maxlen |-> 0]
NotEscaped == [ran |-> FALSE, output |-> <<>>, j |-> 0, read |-> 0]

HostInit ==
    /\ hostConn = "init"
    /\ hostNext = 0
    /\ hostInbox = <<>>
    /\ hostLast = NoRun
    /\ responses = <<>>
    /\ escapeIn = NoEscapeCall
    /\ escapeOut = NotEscaped
    /\ hostEvents = <<>>

\* What Redis_Connect and Redis_Subscribe return in Bridge_Connect
ConnectOutcomes == {"ok", "connectFails", "subscribeFails"}

\* Bridge_SendEvent(eventName, payload), wrong: publishes without testing
\* gBridgeConnected
Bridge_SendEventUnguarded(gBridgeConnected, events, eventName) == Append(events, eventName)

\* Bridge_SendEvent(eventName, payload): returns without publishing when
\* gBridgeConnected is false, else publishes the Event with the id ++gMessageId
Bridge_SendEvent(gBridgeConnected, events, eventName) ==
    IF ~gBridgeConnected THEN events ELSE Append(events, eventName)

\* Bridge_DelayedConnect, the one-shot timer of OnFilterScriptInit: Bridge_Connect.
\* The broker hands a payload only to the subscribers it has at that moment.
Bridge_DelayedConnect(outcome) ==
    /\ hostConn = "init"
    /\ hostNext = Len(published)
    /\ hostConn' = IF outcome = "ok" THEN "connected" ELSE "failed"
    /\ hostEvents' = IF outcome = "ok"
                     THEN Bridge_SendEvent(TRUE, hostEvents, "OnBridgeInit")
                     ELSE hostEvents
    /\ UNCHANGED <<hostNext, hostInbox, hostLast, responses, escapeVars>>
    /\ UNCHANGED <<bridgeVars, dispatchVars, apiVars>>

\* The broker hands the next payload of omp:commands to the filterscript's
\* subscription, or to nobody
BrokerDelivers ==
    /\ hostNext < Len(published)
    /\ hostNext' = hostNext + 1
    /\ hostInbox' = IF hostConn = "connected"
                    THEN Append(hostInbox, WireItem(published[hostNext + 1]))
                    ELSE hostInbox
    /\ UNCHANGED <<hostConn, hostLast, responses, escapeVars, hostEvents>>
    /\ UNCHANGED <<bridgeVars, dispatchVars, apiVars>>

\* The callback Bridge_OnCommand runs for the next payload received
OnCommand(ret, emptyEqual) ==
    /\ hostInbox # <<>>
    /\ emptyEqual => ExtractCommand(Head(hostInbox).data) = <<>>
    /\ LET run == Bridge_OnCommand(Head(hostInbox).data, ret, emptyEqual)
       IN /\ hostLast' = [sent |-> Head(hostInbox).sent, ran |-> TRUE,
                          emptyEqual |-> emptyEqual, run |-> run]
          /\ responses' = responses \o run.out
    /\ hostInbox' = Tail(hostInbox)
    /\ UNCHANGED <<hostConn, hostNext, escapeVars, hostEvents>>
    /\ UNCHANGED <<bridgeVars, dispatchVars, apiVars>>

\* The broker hands a payload of omp:responses to the scripting side
DeliverResponse(g, k) ==
    /\ k \in 1..Len(responses)
    /\ HandleMessage(g, CHANNEL_RESPONSES, JsonParse(responses[k]))

\* What the natives and GetTickCount return
Returns == {0, 1}
\* What GetTickCount returns to the commands of HostNoWaitCommands
HostReturns == {1}

\* The commands the scripting side sends to the filterscript
HostCommands ==
    {<<"PingWithPayload", <<IntArg(42)>>>>, <<"PingWithPayload", <<IntArg(-5)>>>>,
     <<"ping", NoArgs>>}
\* The commands it sends without waiting for the response
HostNoWaitCommands == {<<"Ping", NoArgs>>}

HostNext ==
    \/ Start
    \/ \E g \in Gens : SubscriberConnect(g)
    \/ \E g \in Gens : SubscribeAck(g)
    \/ \E rq \in HostCommands : SendCommand(rq[1], rq[2], NoTimeout)
    \/ \E rq \in HostNoWaitCommands : SendCommandNoWait(rq[1], rq[2])
    \/ \E t \in timers : TimerFire(t)
    \/ \E o \in ConnectOutcomes : Bridge_DelayedConnect(o)
    \/ BrokerDelivers
    \/ \E ret \in HostReturns, q \in BOOLEAN : OnCommand(ret, q)
    \/ \E g \in Gens, k \in 1..Len(responses) : DeliverResponse(g, k)

(***************************************************************************)
(* The inputs of the decoders: commands as sendCommand and                 *)
(* sendCommandNoWait encode them, and texts that are not commands          *)
(***************************************************************************)
CodecIds == {<<7>>, <<1, 0>>}
CodecInts == {-5, 0, 7, 42, 12345}
CodecTexts ==
    {<<"hello">>, <<"a", " ", "b">>, <<"a", ",", "b">>, <<"a", "]">>, <<"[", "a">>,
     <<"{", "a", "}">>, <<QUOTE, "a", QUOTE>>, <<"a", BACKSLASH>>, <<"a", BACKSLASH, "b">>,
     <<"a", NEWLINE, "b">>, <<"a", CR>>, <<TAB, "a">>}
CodecNames == {CommandTable[k] : k \in 1..Len(CommandTable)} \cup {"Teleport", "ping"}

CodecCommands ==
    {<<n, NoArgs>> : n \in CodecNames}
        \cup {<<"PingWithPayload", <<IntArg(n)>>>> : n \in CodecInts}
        \cup {<<"SendClientMessageToAll", <<IntArg(255), TextArg(t)>>>> : t \in CodecTexts}
        \cup {<<"GameTextForPlayer", <<IntArg(3), TextArg(t), IntArg(5000), IntArg(1)>>>> :
                t \in CodecTexts}
        \cup {<<"SetPlayerHealth", <<IntArg(3), FloatArg(50, 5)>>>>,
              <<"SetPlayerHealth", <<IntArg(3), FloatArg(100, 0)>>>>}

\* Texts on omp:commands without a name, an id or an argument list, or cut short
RawTexts ==
    {<<>>, <<"{", "}">>,
     <<"{", QUOTE, "c", QUOTE, ":", QUOTE, "Ping", QUOTE, "}">>,
     <<"{", QUOTE, "a", QUOTE, ":", "[", "]", ",", QUOTE, "i", "d", QUOTE, ":", "7", "}">>,
     <<"{", QUOTE, "c", QUOTE, ":", QUOTE, "Ping", QUOTE, ",", QUOTE, "a", QUOTE, ":", "[", "1">>,
     <<"{", QUOTE, "c", QUOTE, ":", QUOTE, "Ping">>}

CodecItems ==
    {WireItem([c |-> rq[1], a |-> rq[2], id |-> id, idQuoted |-> FALSE, by |-> "sendCommand"]) :
        rq \in CodecCommands, id \in CodecIds}
    \cup {WireItem([c |-> rq[1], a |-> rq[2], id |-> id, idQuoted |-> TRUE,
                    by |-> "sendCommandNoWait"]) : rq \in CodecCommands, id \in CodecIds}
    \cup {RawItem(t) : t \in RawTexts}

\* The filterscript is connected and has received one command
CodecInit ==
    /\ BridgeInit
    /\ DispatchInit
    /\ hostConn = "connected"
    /\ hostNext = 0
    /\ hostInbox \in {<<it>> : it \in CodecItems}
    /\ hostLast = NoRun
    /\ responses = <<>>
    /\ escapeIn = NoEscapeCall
    /\ escapeOut = NotEscaped
    /\ hostEvents = <<>>

CodecNext == \E ret \in Returns, q \in BOOLEAN : OnCommand(ret, q)

\* Both peers with connections that may close: start(), stop(), the subscriber
\* client's events, the filterscript's connection attempt, and Ping calls
ConnNext ==
    \/ Start
    \/ \E g \in Gens : SubscriberConnect(g)
    \/ \E g \in Gens : SubscribeAck(g)
    \/ \E g \in Gens : SubscriberClose(g)
    \/ StopBegin
    \/ StopUnsubscribed
    \/ StopSubscriberQuit
    \/ StopEnd
    \/ \E o \in ConnectOutcomes : Bridge_DelayedConnect(o)
    \/ \E cmd \in Commands : SendCommand(cmd, NoArgs, NoTimeout)
    \/ \E t \in timers : TimerFire(t)
    \/ BrokerDelivers
    \/ \E ret \in HostReturns, q \in BOOLEAN : OnCommand(ret, q)
    \/ \E g \in Gens, k \in 1..Len(responses) : DeliverResponse(g, k)

(***************************************************************************)
(* An OpenMP instance over the lifetime of its connection: handlers are    *)
(* registered while it is connected and removed at any time, and the       *)
(* subscriber connects, loses its connection and connects again            *)
(***************************************************************************)
SessionNext ==
    \/ Start
    \/ \E g \in Gens : SubscriberConnect(g)
    \/ \E g \in Gens : SubscribeAck(g)
    \/ \E g \in Gens : SubscriberClose(g)
    \/ \E cmd \in Commands : SendCommand(cmd, NoArgs, NoTimeout)
    \/ \E t \in timers : TimerFire(t)
    \/ \E ev \in Events, fn \in Fns :
            connected /\ CanRegister(ev, fn, MaxEntries) /\ On(ev, fn)
    \/ \E ev \in Events, fn \in Fns : Off(ev, fn)

(***************************************************************************)
(* Handlers of two events are registered, removed with off() and with the  *)
(* function that on() returns, and invoked by dispatches whose handlers    *)
(* return without a value                                                  *)
(***************************************************************************)
RemovalNext ==
    \/ \E ev \in EventNames, fn \in Fns : CanRegister(ev, fn, MaxHandlers) /\ On(ev, fn)
    \/ \E ev \in Events, fn \in OnceFns :
            CanRegister(ev, WrapperFn(Len(wrappers) + 1), MaxHandlers) /\ Once(ev, fn)
    \/ \E ev \in EventNames, fn \in Fns : Off(ev, fn)
    \/ \E ev \in EventNames, fn \in Fns : Unsubscribe(ev, fn)
    \/ \E ev \in Events : DispatchStart(ev, 0, "sync")
    \/ \E d \in BagToSet(dispatches) : DispatchResume(d, "undefined", 0, "sync")

(***************************************************************************)
(* Bridge_EscapeJSON                                                       *)
(***************************************************************************)
FORMFEED == "\f"

\* The cells that one iteration of the loop writes for the character c
EscapeOf(c) ==
    CASE c = QUOTE -> <<BACKSLASH, QUOTE>>
      [] c = BACKSLASH -> <<BACKSLASH, BACKSLASH>>
      [] c = NEWLINE -> <<BACKSLASH, "n">>
      [] c = CR -> <<BACKSLASH, "r">>
      [] c = TAB -> <<BACKSLASH, "t">>
      [] OTHER -> <<c>>

RECURSIVE EscapeLoop(_, _, _, _)
\* The for loop from index i with the cells output[0..j-1] written: it runs
\* while input[i] != 0 && j < maxlen - 2
EscapeLoop(input, i, output, maxlen) ==
    IF CharAt(input, i) # NUL /\ Len(output) < maxlen - 2
    THEN EscapeLoop(input, i + 1, output \o EscapeOf(CharAt(input, i)), maxlen)
    ELSE [output |-> output, read |-> i]

\* Bridge_EscapeJSON(input, output, maxlen): the cells written before the
\* terminator output[j] = 0, the value returned (j) and the number of
\* characters of input that were escaped
Bridge_EscapeJSON(input, maxlen) ==
    LET end == EscapeLoop(input, 0, <<>>, maxlen)
    IN [ran |-> TRUE, output |-> end.output, j |-> Len(end.output), read |-> end.read]

\* The texts given to Bridge_EscapeJSON and the sizes of its output buffer
EscapeTexts ==
    {<<>>, <<"a">>, <<"a", "b", "c">>, <<QUOTE>>, <<BACKSLASH>>, <<"a", NEWLINE>>,
     <<CR, TAB>>, <<"a", QUOTE, "b">>, <<QUOTE, QUOTE>>, <<BACKSLASH, "n">>,
     <<FORMFEED>>, <<"a", FORMFEED>>}
BufferSizes == 1..MaxBuffer

EscapeInit ==
    /\ BridgeInit
    /\ DispatchInit
    /\ hostConn = "connected"
    /\ hostNext = 0
    /\ hostInbox = <<>>
    /\ hostLast = NoRun
    /\ responses = <<>>
    /\ escapeIn \in [input : EscapeTexts, maxlen : BufferSizes]
    /\ escapeOut = NotEscaped
    /\ hostEvents = <<>>

\* The call Bridge_EscapeJSON(input, output, maxlen) runs
EscapeJSON ==
    /\ ~escapeOut.ran
    /\ escapeOut' = Bridge_EscapeJSON(escapeIn.input, escapeIn.maxlen)
    /\ UNCHANGED <<escapeIn, hostConn, hostNext, hostInbox, hostLast, responses, hostEvents>>
    /\ UNCHANGED <<bridgeVars, dispatchVars, apiVars>>

EscapeNext == EscapeJSON

(***************************************************************************)
(* The Events of the filterscript: game callbacks publish them, the        *)
(* subscriber of the scripting side receives them                          *)
(***************************************************************************)
\* public OnPlayerSpawn(playerid)
OnPlayerSpawn ==
    /\ Len(hostEvents) < MaxEvents
    /\ hostEvents' = Bridge_SendEvent(hostConn = "connected", hostEvents, "OnPlayerSpawn")
    /\ UNCHANGED <<hostConn, hostNext, hostInbox, hostLast, responses, escapeVars>>
    /\ UNCHANGED <<bridgeVars, dispatchVars, apiVars>>

\* The Event that JSON.parse yields for the k-th Event published
EventObject(k) == [kind |-> "obj", id |-> NumId(k), ok |-> FALSE, r |-> 0, e |-> hostEvents[k]]

\* The subscriber receives the k-th Event on omp:events
DeliverEvent(g, k) ==
    /\ k \in 1..Len(hostEvents)
    /\ HandleMessage(g, CHANNEL_EVENTS, EventObject(k))

EventNext ==
    \/ Start
    \/ \E g \in Gens : SubscriberConnect(g)
    \/ \E g \in Gens : SubscribeAck(g)
    \/ \E o \in ConnectOutcomes : Bridge_DelayedConnect(o)
    \/ OnPlayerSpawn
    \/ \E g \in Gens, k \in 1..Len(hostEvents) : DeliverEvent(g, k)
    \/ \E cmd \in Commands : SendCommand(cmd, NoArgs, NoTimeout)
    \/ \E t \in timers : TimerFire(t)
    \/ BrokerDelivers
    \/ \E ret \in HostReturns : OnCommand(ret, FALSE)
    \/ \E g \in Gens, k \in 1..Len(responses) : DeliverResponse(g, k)

(***************************************************************************)
(* OpenMP.waitForConnection                                                *)
(***************************************************************************)
\* The promise of a call, wrong: resolved whatever isConnected is
WaitStateResolved == "resolved"

\* The promise of a call: resolved at once if this.server.isConnected, else
\* waiting for the next "connected"
WaitState == IF connected THEN "resolved" ELSE "waiting"

WaitForConnection ==
    /\ Len(waits) < MaxWaits
    /\ waits' = Append(waits, WaitState)
    /\ UNCHANGED <<bridgeVars, dispatchVars, hostVars, retryTimes, retryDelay>>

WaitNext ==
    \/ Start
    \/ \E g \in Gens : SubscriberConnect(g)
    \/ \E g \in Gens : SubscribeAck(g)
    \/ \E g \in Gens : SubscriberClose(g)
    \/ StopBegin
    \/ StopUnsubscribed
    \/ StopSubscriberQuit
    \/ StopEnd
    \/ WaitForConnection

(***************************************************************************)
(* The transport when start() is called again after stop(): the clients of *)
(* the earlier start() still deliver their events                          *)
(***************************************************************************)
\* The Responses that answer the calls
Answers == {m \in Objects : m.ok /\ m.r = 7 /\ m.id \in {NumId(n) : n \in 1..MaxCalls}}

RestartNext ==
    \/ StartUpTo(MaxStarts + 1)
    \/ \E g \in Gens : SubscriberConnect(g)
    \/ \E g \in Gens : SubscribeAck(g)
    \/ \E g \in Gens : SubscriberClose(g)
    \/ \E g \in Gens : \E m \in Answers : HandleMessage(g, CHANNEL_RESPONSES, m)
    \/ \E cmd \in Commands : SendCommand(cmd, NoArgs, NoTimeout)
    \/ \E cmd \in Commands : SendCommandNoWait(cmd, NoArgs)
    \/ \E t \in timers : TimerFire(t)
    \/ StopBegin
    \/ StopUnsubscribed
    \/ StopSubscriberQuit
    \/ StopEnd

\* handleMessage on every channel while calls are issued and time out
ChannelNext ==
    \/ Start
    \/ \E g \in Gens : SubscriberConnect(g)
    \/ \E g \in Gens : SubscribeAck(g)
    \/ \E g \in Gens, ch \in Channels : \E m \in MessagesOn(ch) : HandleMessage(g, ch, m)
    \/ \E cmd \in Commands : SendCommand(cmd, NoArgs, NoTimeout)
    \/ \E t \in timers : TimerFire(t)

(***************************************************************************)
(* retryStrategy of the Redis clients                                      *)
(***************************************************************************)
\* Math.min of two numbers
MathMin(a, b) == IF a < b THEN a ELSE b

\* retryStrategy, wrong: the delay grows without a largest value
retryStrategyUncapped(times) == times * RetryStep

\* retryStrategy(times): the delay in ms before the times-th attempt
retryStrategy(times) == MathMin(times * RetryStep, RetryCap)

\* The client calls retryStrategy with the number of the attempt, which counts
\* up while the subscriber is not connected
RetryAttempt ==
    /\ retryTimes < MaxAttempts
    /\ \E g \in Gens : subStatus[g] = "reconnecting"
    /\ retryTimes' = retryTimes + 1
    /\ retryDelay' = retryStrategy(retryTimes + 1)
    /\ UNCHANGED <<bridgeVars, dispatchVars, hostVars, waits>>

RetryNext ==
    \/ Start
    \/ \E g \in Gens : SubscriberConnect(g)
    \/ \E g \in Gens : SubscribeAck(g)
    \/ \E g \in Gens : SubscriberClose(g)
    \/ \E cmd \in Commands : SendCommandNoWait(cmd, NoArgs)
    \/ RetryAttempt

(***************************************************************************)
(* Specifications                                                          *)
(***************************************************************************)
Init == BridgeInit /\ DispatchInit /\ HostInit
Next == BridgeNext

\* BridgeServer
Spec == Init /\ [][Next]_vars

\* OpenMP dispatcher
DispatchSpec == Init /\ [][DispatchNext]_vars

\* BridgeServer, the broker and the filterscript while the connection stays up
HostSpec == Init /\ [][HostNext]_vars

\* Bridge_OnCommand on one command
CodecSpec == CodecInit /\ [][CodecNext]_vars

\* Both peers with connections that may close
ConnSpec == Init /\ [][ConnNext]_vars

\* Registrations and removals of handlers of two events between dispatches
RemovalSpec == Init /\ [][RemovalNext]_vars

\* The subscriber client's reconnection attempts
RetrySpec == Init /\ [][RetryNext]_vars

\* The message handler over the channels while calls are pending
ChannelSpec == Init /\ [][ChannelNext]_vars

\* The transport over stop() and a further start()
RestartSpec == Init /\ [][RestartNext]_vars

\* waitForConnection over the lifetime of the connection
WaitSpec == Init /\ [][WaitNext]_vars

\* Both peers with the Events of the filterscript
EventSpec == Init /\ [][EventNext]_vars

\* Bridge_EscapeJSON applied to a text and a buffer size
EscapeSpec == EscapeInit /\ [][EscapeNext]_vars

\* The scripting side with its handler registrations over connection losses
SessionSpec == Init /\ [][SessionNext]_vars

(***************************************************************************)
(* Helpers of the properties                                               *)
(***************************************************************************)
CallIds == 1..Len(calls)
Registered(c) == calls[c].id # <<>>
IsPending(c) == calls[c].state = "pending"
OthersUnchanged(c) == \A o \in CallIds : o # c => calls'[o] = calls[o]
RegistryUnchanged == UNCHANGED <<pendingResponses, timers, calls>>

(***************************************************************************)
(* C1: with any number of calls outstanding and Responses arriving in any  *)
(* order, a Response with ok=true whose id is pending resolves the one     *)
(* call that was allocated that id, with the Response's r, and changes no  *)
(* other call; no two calls are allocated the same id.                     *)
(***************************************************************************)
C1_ResponseResolvesItsCall ==
    /\ [](\A c1, c2 \in CallIds :
            (Registered(c1) /\ calls[c1].id = calls[c2].id) => c1 = c2)
    /\ [][\A g \in Gens, m \in Objects :
            (/\ m.ok
             /\ MapHas(pendingResponses, String(m.id))
             /\ HandleMessage(g, CHANNEL_RESPONSES, m))
            => \E c \in CallIds :
                 /\ calls[c].id = String(m.id)
                 /\ IsPending(c)
                 /\ calls'[c].state = "resolved"
                 /\ calls'[c].value = m.r
                 /\ OthersUnchanged(c)]_vars

\* Two calls were outstanding together and the later one was resolved first
C1_Witness ==
    /\ Len(calls) >= 2
    /\ calls[1].state = "pending"
    /\ calls[2].state = "resolved"
    /\ calls[2].value = 7

(***************************************************************************)
(* C2: for every call, resolve/reject is invoked at most once and its      *)
(* entry is removed from pendingResponses exactly once (when it settles);  *)
(* once a call is settled no later Response, timeout, close or stop()      *)
(* changes it.                                                             *)
(***************************************************************************)
C2_SettledExactlyOnce ==
    /\ [](\A c \in CallIds :
            /\ calls[c].invoked <= 1
            /\ calls[c].removed <= 1
            /\ Registered(c) =>
                 /\ IsPending(c) <=> MapHas(pendingResponses, calls[c].id)
                 /\ IsPending(c) <=> calls[c].removed = 0
                 /\ IsPending(c) <=> calls[c].invoked = 0)
    /\ [][\A c \in CallIds : ~IsPending(c) => calls'[c] = calls[c]]_vars

\* A call settled by a Response while stop() is running and another settled
\* by stop() or a close
C2_Witness ==
    /\ Len(calls) >= 2
    /\ \E c \in CallIds : calls[c].state = "resolved" /\ calls[c].removed = 1
    /\ \E c \in CallIds : calls[c].error \in {"Server stopped", "Connection closed"}
                          /\ calls[c].invoked = 1

(***************************************************************************)
(* C3: every call that registered a pending entry is eventually settled,   *)
(* given that an armed deadline timer eventually fires.                    *)
(***************************************************************************)
C3_EventuallySettled ==
    \A c \in 1..MaxCalls :
        (Len(calls) >= c /\ Registered(c) /\ IsPending(c))
            ~> (Len(calls) >= c /\ ~IsPending(c))

\* A call that no Response answered was settled by its timer
C3_Witness ==
    \E c \in CallIds : calls[c].error = TimeoutMessage(calls[c].cmd)

(***************************************************************************)
(* C4: the deadline timer of a call has the delay given to sendCommand,    *)
(* 5000 ms by default; when it fires the call is rejected with the timeout *)
(* error, its entry is removed, every other call, entry and timer is       *)
(* unchanged, and a later Response for that id changes nothing.            *)
(***************************************************************************)
C4_TimeoutRejectsOnlyItsCall ==
    /\ [][\A cmd \in Commands, to \in TimeoutArgs :
            (SendCommand(cmd, NoArgs, to) /\ publisher # 0 /\ connected)
            => \E t \in timers' \ timers :
                 /\ t.call = Len(calls')
                 /\ t.ms = IF to.given THEN to.ms ELSE 5000]_vars
    /\ [][\A t \in timers : TimerFire(t) =>
            /\ IsPending(t.call)
            /\ calls'[t.call].state = "rejected"
            /\ calls'[t.call].error = TimeoutMessage(calls[t.call].cmd)
            /\ ~MapHas(pendingResponses', calls[t.call].id)
            /\ OthersUnchanged(t.call)
            /\ pendingResponses' = SelectSeq(pendingResponses, LAMBDA en : en.call # t.call)
            /\ timers' = timers \ {t}]_vars
    \* no step that changes a call, an entry or a timer is the handling of a
    \* Response for the id of a call that its timer rejected
    /\ [][RegistryUnchanged
            \/ \A g \in Gens, m \in Objects :
                  ~(/\ \E c \in CallIds : /\ calls[c].id = String(m.id)
                                          /\ calls[c].error = TimeoutMessage(calls[c].cmd)
                    /\ HandleMessage(g, CHANNEL_RESPONSES, m))]_vars

\* One call was rejected by its timer while another is still pending
C4_Witness ==
    \E c, o \in CallIds :
        /\ calls[c].state = "rejected"
        /\ calls[c].error = TimeoutMessage(calls[c].cmd)
        /\ ~MapHas(pendingResponses, calls[c].id)
        /\ IsPending(o)
        /\ MapHas(pendingResponses, calls[o].id)

(***************************************************************************)
(* C5: the subscriber's close handler rejects every pending call with the  *)
(* connection-closed error in that one step and empties pendingResponses;  *)
(* a later Response for such an id changes nothing, and a reconnect brings *)
(* no call back.                                                           *)
(***************************************************************************)
C5_CloseRejectsAllPending ==
    /\ [][\A g \in Gens : SubscriberClose(g) =>
            /\ \A c \in CallIds : IsPending(c) =>
                 /\ calls'[c].state = "rejected"
                 /\ calls'[c].error = "Connection closed"
            /\ pendingResponses' = <<>>
            /\ timers' = {}]_vars
    \* no step that changes a call, an entry or a timer is the handling of a
    \* Response for the id of a call that a close rejected
    /\ [][RegistryUnchanged
            \/ \A g \in Gens, m \in Objects :
                  ~(/\ \E c \in CallIds : /\ calls[c].id = String(m.id)
                                          /\ calls[c].error = "Connection closed"
                    /\ HandleMessage(g, CHANNEL_RESPONSES, m))]_vars
    /\ [][\A g \in Gens : SubscriberConnect(g) => RegistryUnchanged]_vars

\* Two calls were pending at a close, the connection is up again and both
\* stay rejected
C5_Witness ==
    /\ Len(calls) >= 2
    /\ \A c \in 1..2 : calls[c].state = "rejected" /\ calls[c].error = "Connection closed"
    /\ pendingResponses = <<>>
    /\ connected

(***************************************************************************)
(* C6: a Response whose id is not pending is handled without an error and  *)
(* leaves pendingResponses, every call and every armed timer unchanged.    *)
(***************************************************************************)
C6_UnknownResponseIgnored ==
    \* no step that changes a call, an entry or a timer, or that logs an
    \* error, is the handling of a Response whose id is not pending
    [][(RegistryUnchanged /\ ~logError')
          \/ \A g \in Gens, m \in Objects :
                ~(/\ ~MapHas(pendingResponses, String(m.id))
                  /\ HandleMessage(g, CHANNEL_RESPONSES, m))]_vars

\* A call is pending, another was already resolved, and the last message
\* was handled without an error
C6_Witness ==
    /\ \E c \in CallIds : IsPending(c)
    /\ \E c \in CallIds : calls[c].state = "resolved"
    /\ subStatus[1] = "ready"
    /\ ~logError

(***************************************************************************)
(* Helpers of the dispatcher properties                                    *)
(***************************************************************************)
Dispatches == BagToSet(dispatches)
\* The records that a step took calls from, and those it moved calls to
Left == {d \in BagToSet(dispatches) : CopiesIn(d, dispatches') < CopiesIn(d, dispatches)}
Entered == {e \in BagToSet(dispatches') : CopiesIn(e, dispatches') > CopiesIn(e, dispatches)}
Positions(d) == {d.log[k].pos : k \in 1..Len(d.log)}
\* The first handler in registration order after position p of entry list s
FirstAfter(s, p) ==
    LET live == {q \in (p + 1)..Len(s) : s[q] # 0}
    IN IF live = {} THEN 0 ELSE CHOOSE q \in live : \A q2 \in live : q <= q2
Returned(d) == d.state \in {"stopped", "exhausted"}

(***************************************************************************)
(* C7: a dispatch invokes the handlers of its event's chain in             *)
(* registration order, starting from the first one and skipping none; it   *)
(* stops, invoking no further handler, exactly when the awaited result is  *)
(* false, and continues with the next handler for true, undefined or a     *)
(* throw.                                                                  *)
(***************************************************************************)
C7_OrderedShortCircuit ==
    /\ [](\A d \in Dispatches :
            /\ \A k \in 1..(Len(d.log) - 1) : d.log[k].pos < d.log[k + 1].pos
            /\ d.log # <<>> /\ d.cursor = d.log[Len(d.log)].pos
            /\ \A p \in 1..d.cursor : sets[d.set][p] # 0 => p \in Positions(d))
    \* A new dispatch calls the first handler of its event's chain first.  A
    \* dispatch that returned calls nothing any more.  A step that changes a
    \* dispatch whose result is available resumes it: it stopped without a
    \* further call only if no result other than false leads to this step,
    \* and otherwise false does not lead to it and the next handler in
    \* registration order, if any, was the first one called.
    /\ [][IF dispatches' = dispatches THEN TRUE
          ELSE IF Left = {}
          THEN \A e \in Entered :
                 /\ e.log # <<>>
                 /\ e.log[1].pos = FirstAfter(sets[handlers[e.ev]], 0)
          ELSE \A d \in Left, e \in Entered :
                 LET next == FirstAfter(sets[d.set], d.cursor)
                 IN /\ ~Returned(d)
                    /\ d.state = "ready" =>
                         IF e.state = "stopped"
                         THEN /\ e.log = d.log
                              /\ \A res \in Results \ {"false"}, n \in 0..MaxEntries,
                                    o \in Outcomes : ~DispatchResume(d, res, n, o)
                         ELSE /\ \A n \in 0..MaxEntries, o \in Outcomes :
                                    ~DispatchResume(d, "false", n, o)
                              /\ IF next = 0
                                 THEN e.state = "exhausted" /\ e.log = d.log
                                 ELSE /\ Len(e.log) > Len(d.log)
                                      /\ e.log[Len(d.log) + 1].pos = next]_vars

\* One dispatch invoked two handlers in order; another dispatch of the same
\* chain was stopped by false after the first handler and left the second
C7_Witness ==
    \E d, e \in Dispatches :
        /\ d.state = "exhausted"
        /\ Len(d.log) = 2
        /\ e.state = "stopped"
        /\ e.log = <<[pos |-> 1]>>
        /\ e.set = d.set
        /\ FirstAfter(sets[e.set], 1) = 2

(***************************************************************************)
(* C8: within a dispatch a handler is invoked only when the result of the  *)
(* handler before it is available; while the promise of an asynchronous    *)
(* handler is unsettled the dispatch invokes nothing.                      *)
(***************************************************************************)
C8_AwaitsEachHandler ==
    [][\A d \in Left, e \in Entered : e.log # d.log => d.state = "ready"]_vars

\* A dispatch awaits the unsettled promise of its first handler, with a
\* handler left in its chain, while another dispatch already invoked two
C8_Witness ==
    \E d, e \in Dispatches :
        /\ d.state = "pending"
        /\ Len(d.log) = 1
        /\ Remaining(sets[d.set], d.cursor) > 0
        /\ Len(e.log) = 2

(***************************************************************************)
(* C9: a handler that throws, or whose promise rejects, does not end the   *)
(* dispatch: the next handler of the chain in registration order, if there *)
(* is one, is invoked in the same dispatch.                                *)
(***************************************************************************)
C9_ThrowContinues ==
    \* Of a step that changes a dispatch whose result is available: unless
    \* the next handler, if any, was the first one called, a rejected promise
    \* does not lead to this step; and unless the step called n handlers and
    \* the one after them, if any, n handlers throwing synchronously do not
    \* lead to it.  The same of a step that starts a dispatch.
    [][IF dispatches' = dispatches THEN TRUE
       ELSE IF Left = {}
       THEN \A e \in Entered :
              LET left == Remaining(sets[handlers[e.ev]], 0)
              IN \A n \in 1..MaxEntries :
                   \/ Len(e.log) = IF left > n THEN n + 1 ELSE n
                   \/ \A o \in Outcomes : ~DispatchStart(e.ev, n, o)
       ELSE \A d \in Left, e \in Entered :
              LET next == FirstAfter(sets[d.set], d.cursor)
                  left == Remaining(sets[d.set], d.cursor)
              IN d.state = "ready" =>
                   /\ \/ next = 0
                      \/ /\ Len(e.log) > Len(d.log)
                         /\ e.log[Len(d.log) + 1].pos = next
                      \/ \A n \in 0..MaxEntries, o \in Outcomes :
                            ~DispatchResume(d, "throw", n, o)
                   /\ \A n \in 1..MaxEntries :
                        \/ Len(e.log) - Len(d.log) = IF left > n THEN n + 1 ELSE n
                        \/ \A res \in Results \ {"false"}, o \in Outcomes :
                              ~DispatchResume(d, res, n, o)]_vars

\* The only dispatch caught a handler's error in the most recent step and
\* has invoked the handler registered after that one
C9_Witness ==
    /\ consoleError
    /\ BagCardinality(dispatches) = 1
    /\ \E d \in Dispatches :
         /\ Len(d.log) = 2
         /\ d.state \in {"ready", "pending"}

(***************************************************************************)
(* C10: a wrappedHandler created by one once() call calls its handler at   *)
(* most once, over any dispatches, overlapping ones included.              *)
(***************************************************************************)
C10_OnceAtMostOnce ==
    \A w \in 1..Len(fired) : fired[w] <= 1

(***************************************************************************)
(* C11: inbound Events are processed one after the other: at most one      *)
(* dispatch per event name is in flight, the next one starts when the      *)
(* previous one has returned.                                              *)
(***************************************************************************)
InFlight(ev) == {d \in Dispatches : d.ev = ev /\ ~Returned(d)}

C11_OneDispatchInFlight ==
    \A ev \in Events :
        /\ Cardinality(InFlight(ev)) <= 1
        /\ \A d \in InFlight(ev) : CopiesIn(d, dispatches) = 1

(***************************************************************************)
(* C12: every Command the scripting side publishes, by sendCommand and by  *)
(* sendCommandNoWait, carries its id as a bare base-10 integer: the        *)
(* filterscript's digit scan recovers the id and the Response it publishes *)
(* is well-formed JSON with that id.                                       *)
(***************************************************************************)
\* The most recent Bridge_OnCommand run was for a command the scripting side encoded
RanEncoded == hostLast.ran /\ hostLast.sent.by \in {"sendCommand", "sendCommandNoWait"}

C12_IdRecovered ==
    RanEncoded =>
        /\ hostLast.run.msgId = DigitText(hostLast.sent.id)
        /\ Len(hostLast.run.out) = 1
        /\ LET data == JsonParse(hostLast.run.out[1])
           IN data.kind = "obj" /\ String(data.id) = hostLast.sent.id

(***************************************************************************)
(* C13: for a flat argument list whose text elements may hold commas,      *)
(* brackets, braces and escaped quotes, the filterscript's decoders find   *)
(* the true element boundaries: the array it extracts is the encoded list, *)
(* and decoding position k as integer, float or text yields the k-th       *)
(* element (for a text: the characters between its quotes).                *)
(***************************************************************************)
\* The characters of the encoded text s between its quotes
Between(s) == SubSeq(JsonString(s), 2, Len(JsonString(s)) - 1)

\* Decoding position k of args as the type of v yields v
DecodesTo(args, k, v) ==
    CASE v.t = "int" -> Bridge_ParseIntArg(args, k) = v.n
      [] v.t = "float" -> Bridge_ParseFloatArg(args, k) = [n |-> v.n, f |-> v.f]
      [] v.t = "text" -> Bridge_ParseStringArg(args, k) = Between(v.s)

C13_ElementBoundaries ==
    RanEncoded =>
        /\ hostLast.run.args = JsonArray(hostLast.sent.a)
        /\ \A k \in 1..Len(hostLast.sent.a) :
              DecodesTo(hostLast.run.args, k - 1, hostLast.sent.a[k])

(***************************************************************************)
(* C14: a text made of words, quotes, backslashes, newlines, carriage      *)
(* returns and tabs that the scripting side encodes as a Command argument  *)
(* reaches the native exactly as it was: the filterscript's text decoder   *)
(* reverses the five escapes.                                              *)
(***************************************************************************)
\* s holds none of the characters that delimit elements
NoDelimiters(s) == \A i \in 1..Len(s) : s[i] \notin {",", "[", "]", "{", "}"}

C14_TextRoundTrip ==
    RanEncoded =>
        \A k \in 1..Len(hostLast.sent.a) :
            (hostLast.sent.a[k].t = "text" /\ NoDelimiters(hostLast.sent.a[k].s))
                => /\ Len(hostLast.run.natives) = 1
                   /\ hostLast.run.natives[1].a[k] = hostLast.sent.a[k]

(***************************************************************************)
(* C15: for every Command the filterscript receives, one without a name,   *)
(* an id or an argument list and one with an unknown name included, the    *)
(* Bridge_OnCommand run publishes exactly one Response text on             *)
(* omp:responses, and nothing else is published there.                     *)
(***************************************************************************)
\* This step is a Bridge_OnCommand run
CommandRuns == hostInbox # <<>> /\ hostInbox' = Tail(hostInbox)

C15_OneResponsePerCommand ==
    [][IF CommandRuns
       THEN /\ Len(hostLast'.run.out) = 1
            /\ hostLast'.run.out[1] = FormatResponse(hostLast'.run.result, hostLast'.run.msgId)
            /\ responses' = Append(responses, hostLast'.run.out[1])
       ELSE responses' = responses]_vars

\* Commands without a name and without an id were answered too
C15_Witness ==
    /\ hostLast.ran
    /\ hostLast.sent.by = "raw"
    /\ hostLast.run.command = <<>>
    /\ hostLast.run.msgId = <<>>
    /\ Len(responses) = 1

(***************************************************************************)
(* C16: a Command whose name equals no name of the dispatch table, letter  *)
(* case included, calls no native and is answered with ok = true and       *)
(* r = 0: the call's promise is resolved with 0 and no Response rejects it.*)
(***************************************************************************)
TableNames == {CommandTable[k] : k \in 1..Len(CommandTable)}

PublishedArgs(c) ==
    {published[k].a : k \in {j \in 1..Len(published) : published[j].id = calls[c].id}}

C17_EchoResolvesWithArgument ==
    /\ (/\ hostLast.ran
        /\ hostLast.sent.by = "sendCommand"
        /\ hostLast.sent.c = "PingWithPayload")
          => LET n == hostLast.sent.a[1].n
                 data == JsonParse(hostLast.run.out[1])
             IN /\ hostLast.run.result = n
                /\ data.kind = "obj" /\ data.ok /\ data.r = n
                /\ String(data.id) = hostLast.sent.id
    /\ \A c \in CallIds :
          calls[c].cmd = "PingWithPayload"
             => /\ calls[c].state = "resolved"
                      => PublishedArgs(c) = {<<IntArg(calls[c].value)>>}
                /\ calls[c].state = "rejected"
                      => calls[c].error \in {TimeoutMessage(calls[c].cmd),
                                             "Not connected to Redis"}

\* Two echo calls were resolved, one of them with a negative number
C17_Witness ==
    /\ \E c \in CallIds : calls[c].state = "resolved" /\ calls[c].value = -5
    /\ \E c \in CallIds : calls[c].state = "resolved" /\ calls[c].value = 42

(***************************************************************************)
(* C18: a Command with a name of the dispatch table, an empty argument     *)
(* list and an id, encoded by sendCommand, is decoded by Bridge_OnCommand  *)
(* to that name, that id and the empty list: every positional read of the  *)
(* list returns its default.                                               *)
(***************************************************************************)
\* The positions the dispatch table reads
ArgPositions == 0..3

C18_EmptyArgsRoundTrip ==
    (/\ hostLast.ran
     /\ hostLast.sent.by = "sendCommand"
     /\ hostLast.sent.c \in TableNames
     /\ hostLast.sent.a = NoArgs)
        => /\ hostLast.run.command = <<hostLast.sent.c>>
           /\ hostLast.run.msgId = DigitText(hostLast.sent.id)
           /\ hostLast.run.args = <<"[", "]">>
           /\ \A k \in ArgPositions :
                 /\ Bridge_ParseIntArg(hostLast.run.args, k) = 0
                 /\ Bridge_ParseFloatArg(hostLast.run.args, k) = [n |-> 0, f |-> 0]
                 /\ Bridge_ParseStringArg(hostLast.run.args, k) = <<>>
           /\ \A i \in 1..Len(hostLast.run.natives) :
                 \A k \in 1..Len(hostLast.run.natives[i].a) :
                     hostLast.run.natives[i].a[k] \in {IntArg(0), FloatArg(0, 0), TextArg(<<>>)}

\* A command without arguments and with an id of two digits was decoded
C18_Witness ==
    /\ hostLast.ran
    /\ hostLast.sent.by = "sendCommand"
    /\ hostLast.sent.c = "SendClientMessage"
    /\ hostLast.sent.a = NoArgs
    /\ hostLast.sent.id = <<1, 0>>
    /\ Len(hostLast.run.natives) = 1

(***************************************************************************)
(* C19: the scripting side emits "connected" and reports isConnected only  *)
(* once the broker has acknowledged the subscription to the events and     *)
(* responses channels, so no Response is published while the responses     *)
(* channel is not subscribed.                                              *)
(***************************************************************************)
\* The current subscriber client's subscription has been acknowledged
Subscribed == subscriber # 0 /\ subStatus[subscriber] = "ready"

C19_ConnectedAfterAck ==
    /\ connected => Subscribed
    /\ emitted = <<"connected">> => Subscribed
    /\ responses # <<>> => Subscribed

(***************************************************************************)
(* C20: on both peers a failed connection attempt or a close is followed   *)
(* by a retry: the scripting side's client ends only after stop(), and a   *)
(* filterscript whose attempt failed makes another attempt.  Neither peer  *)
(* gives up.                                                               *)
(***************************************************************************)
C20_NeitherPeerGivesUp ==
    /\ \A g \in Gens : subStatus[g] = "end" => subQuit[g]
    /\ hostConn = "failed" => ENABLED (\E o \in ConnectOutcomes : Bridge_DelayedConnect(o))

(***************************************************************************)
(* C21: stop() rejects every pending call, unsubscribes, closes both       *)
(* connections and signals "disconnected": when it has completed, no entry *)
(* is left in pendingResponses and isConnected is false, also when         *)
(* sendCommand was called while stop() was in progress.                    *)
(***************************************************************************)
\* A stop() call has completed and start() has not been called again
Stopped == starts > 0 /\ subscriber = 0 /\ stopPc = "idle"

C21_StopLeavesNothingPending ==
    Stopped =>
        /\ pendingResponses = <<>>
        /\ ~connected
        /\ \A c \in CallIds : Registered(c) => ~IsPending(c)

(***************************************************************************)
(* C22: after stop() has completed the transport stays stopped: the        *)
(* clients it closed do not reconnect, isConnected stays false and no      *)
(* "connected" signal is emitted, for as long as start() is not called     *)
(* again.                                                                  *)
(***************************************************************************)
C22_StoppedIsFinal ==
    Stopped =>
        /\ ~connected
        /\ emitted # <<"connected">>
        /\ \A g \in Gens : subQuit[g] => subStatus[g] \in {"connect", "end"}
        /\ ~ENABLED (\E g \in Gens : SubscriberConnect(g))

\* stop() has completed and the closed subscriber's "close" event has been handled
C22_Witness ==
    /\ Stopped
    /\ \E g \in Gens : subQuit[g] /\ subStatus[g] = "end"
    /\ emitted = <<"disconnected">>

(***************************************************************************)
(* C23: a Command issued while the broker connection is down is not        *)
(* published, then or later, and its caller learns of the loss from the    *)
(* Timeout rejection of the call at its deadline: until then the call is   *)
(* pending.  A call issued while the connection is down is one that was    *)
(* given no id.                                                            *)
(***************************************************************************)
C23_DownCommandTimesOut ==
    \A c \in CallIds :
        ~Registered(c) =>
            \/ IsPending(c)
            \/ /\ calls[c].state = "rejected"
               /\ calls[c].error = TimeoutMessage(calls[c].cmd)

(***************************************************************************)
(* C24: a Response with ok=false whose id is pending rejects exactly that  *)
(* call, with the Response's error text or, when it has none, with the     *)
(* default text; the call's timer is cancelled and its entry removed, and  *)
(* every other call, entry and timer is as before.                         *)
(***************************************************************************)
C24_FailureRejectsOnlyItsCall ==
    [][\A g \in Gens, m \in Objects :
         (/\ ~m.ok
          /\ MapHas(pendingResponses, String(m.id))
          /\ HandleMessage(g, CHANNEL_RESPONSES, m))
         => \E c \in CallIds :
              /\ calls[c].id = String(m.id)
              /\ IsPending(c)
              /\ calls'[c].state = "rejected"
              /\ calls'[c].error = (IF m.e = Undefined THEN "Command failed" ELSE m.e)
              /\ calls'[c].error # Undefined
              /\ OthersUnchanged(c)
              /\ timers' = {t \in timers : t.call # c}
              /\ pendingResponses' = SelectSeq(pendingResponses, LAMBDA en : en.call # c)]_vars

\* A call was rejected with the default text by a Response that has no e,
\* while a call issued before it is still pending with its timer armed
C24_Witness ==
    \E c, o \in CallIds :
        /\ calls[c].state = "rejected"
        /\ calls[c].error = "Command failed"
        /\ calls[c].removed = 1
        /\ o < c
        /\ IsPending(o)
        /\ MapHas(pendingResponses, calls[o].id)
        /\ \E t \in timers : t.call = o

(***************************************************************************)
(* C25: when a native operation fails on the host (the native returns 0),  *)
(* the Response published for the Command has ok=false and an error text,  *)
(* and not ok=true with the value 0.                                       *)
(***************************************************************************)
\* The command that ran last called a native, which returned 0
NativeFailed ==
    /\ RanEncoded
    /\ hostLast.run.natives # <<>>
    /\ hostLast.run.result = 0

C25_NativeFailureIsError ==
    NativeFailed =>
        \A k \in 1..Len(hostLast.run.out) :
            /\ strfind(hostLast.run.out[k],
                       <<QUOTE, "o", "k", QUOTE, ":", "f", "a", "l", "s", "e">>, 0) # -1
            /\ strfind(hostLast.run.out[k], <<QUOTE, "e", QUOTE, ":">>, 0) # -1

(***************************************************************************)
(* C26: a message that cannot be parsed or processed, on any channel, is   *)
(* dropped: the step that receives it leaves pendingResponses, the calls,  *)
(* the timers and the handler chains unchanged and emits nothing, and a    *)
(* well-formed Response received after it settles its call as usual.       *)
(***************************************************************************)
C26_MalformedDropped ==
    /\ [][\A g \in Gens, ch \in Channels, m \in {Malformed, Null} :
            HandleMessage(g, ch, m) =>
                /\ RegistryUnchanged
                /\ UNCHANGED <<dispatchVars, connected, messageId, published, subStatus>>
                /\ emitted' = <<>>]_vars
    /\ [][\A g \in Gens, m \in Objects :
            (/\ logError
             /\ MapHas(pendingResponses, String(m.id))
             /\ HandleMessage(g, CHANNEL_RESPONSES, m))
            => \E c \in CallIds :
                 /\ calls[c].id = String(m.id)
                 /\ IsPending(c)
                 /\ calls'[c].state = (IF m.ok THEN "resolved" ELSE "rejected")
                 /\ ~MapHas(pendingResponses', String(m.id))
                 /\ ~logError']_vars

\* An unparseable message was just dropped while two calls are pending
C26_Witness ==
    /\ logError
    /\ Len(pendingResponses) = 2
    /\ \A c \in CallIds : IsPending(c) /\ \E t \in timers : t.call = c

(***************************************************************************)
(* C27: a reconnection starts with an empty pendingResponses and with      *)
(* empty handler chains: when the subscriber connects again after it lost  *)
(* its connection, no call is pending and no event has a handler.  Every   *)
(* handler is registered while connected, so a handler that is in a chain  *)
(* at the reconnection was registered before the disconnect.               *)
(***************************************************************************)
\* The handlers registered for ev, in registration order
Chain(ev) == IF handlers[ev] = 0 THEN <<>> ELSE SelectSeq(sets[handlers[ev]], LAMBDA f : f # 0)

C27_ReconnectStartsEmpty ==
    [][\A g \in Gens :
         (subStatus[g] = "reconnecting" /\ SubscriberConnect(g)) =>
            /\ pendingResponses' = <<>>
            /\ \A c \in CallIds : ~IsPending(c)
            /\ \A ev \in Events : Chain(ev) = <<>>]_vars

(***************************************************************************)
(* C28: off(event, h) and the function returned by on(event, h) remove     *)
(* exactly h from the chain of that event: the handlers that remain keep   *)
(* their order, the chains of the other events are unchanged, a removal of *)
(* a handler that is not in the chain changes nothing, and a dispatch that *)
(* starts afterwards invokes only handlers that are in the chain then.     *)
(***************************************************************************)
\* The handlers that a step invoked: the entries that it added to the log of
\* a dispatch, as pairs of a Set and a position in it
NewlyInvoked ==
    UNION {{<<e.set, e.log[k].pos>> :
                k \in {j \in 1..Len(e.log) : \A d \in Left : j > Len(d.log)}} :
           e \in Entered}

C28_RemovesExactlyH ==
    /\ [][\A ev \in EventNames, fn \in Fns :
            (Off(ev, fn) \/ Unsubscribe(ev, fn)) =>
                /\ Chain(ev)' = SelectSeq(Chain(ev), LAMBDA f : f # fn)
                /\ \A o \in EventNames \ {ev} : Chain(o)' = Chain(o)
                /\ ~SetHas(Chain(ev), fn) => sets' = sets
                /\ UNCHANGED <<handlers, wrappers, dispatches, fired>>]_vars
    /\ [][\A ev \in Events :
            DispatchStart(ev, 0, "sync") =>
                \A e \in Entered : \A k \in 1..Len(e.log) :
                    /\ e.set = handlers[ev]
                    /\ SetHas(Chain(ev), sets[e.set][e.log[k].pos])]_vars
    /\ [][\A p \in NewlyInvoked : sets[p[1]][p[2]] # 0]_vars

\* The first of three handlers of an event was removed, the other two are in
\* their order, and a dispatch that started afterwards began with the second
C28_Witness ==
    /\ handlers["X"] # 0
    /\ sets[handlers["X"]] = <<0, 1, WrapperFn(1)>>
    /\ Chain("X") = <<1, WrapperFn(1)>>
    /\ \E d \in Dispatches :
          /\ d.set = handlers["X"]
          /\ d.log = <<[pos |-> 2]>>

(***************************************************************************)
(* C29: sendCommandNoWait publishes at most one Command and creates no     *)
(* pending entry, no timer and no call; when the transport is not          *)
(* connected it publishes nothing, allocates no id and reports no error.   *)
(***************************************************************************)
C29_NoWaitFireAndForget ==
    [][\A cmd \in Commands :
         SendCommandNoWait(cmd, NoArgs) =>
            /\ RegistryUnchanged
            /\ ~logError'
            /\ IF publisher # 0 /\ connected
               THEN /\ Len(published') = Len(published) + 1
                    /\ SubSeq(published', 1, Len(published)) = published
                    /\ published'[Len(published')].c = cmd
                    /\ published'[Len(published')].id = NumberToString(messageId')
                    /\ messageId' = messageId + 1
               ELSE UNCHANGED <<published, messageId>>]_vars

\* A Command was published by sendCommandNoWait and nothing is registered
C29_Witness ==
    /\ Len(published) = 1
    /\ published[1].by = "sendCommandNoWait"
    /\ messageId = 1
    /\ pendingResponses = <<>>
    /\ timers = {}
    /\ calls = <<>>
    /\ ~connected

(***************************************************************************)
(* C30: Bridge_EscapeJSON writes, for each character it reads, the         *)
(* two-character escape of a quote, backslash, newline, carriage return or *)
(* tab and the character itself otherwise; it writes no cell beyond        *)
(* output[maxlen - 1] and never one half of an escape; and when the buffer *)
(* was large enough for the whole input, JSON.parse of the output between  *)
(* quotes yields the input.                                                *)
(***************************************************************************)
\* The characters below U+0020, which a JSON string may not contain as such
ControlChars == {NEWLINE, CR, TAB, FORMFEED}

\* No text: JSON.parse throws
NoText == [ok |-> FALSE, s |-> <<>>]

\* The character that the escape \c stands for in a JSON string, NUL if none
Unescaped(c) ==
    CASE c = QUOTE -> QUOTE
      [] c = BACKSLASH -> BACKSLASH
      [] c = "/" -> "/"
      [] c = "n" -> NEWLINE
      [] c = "r" -> CR
      [] c = "t" -> TAB
      [] c = "f" -> FORMFEED
      [] OTHER -> NUL

RECURSIVE JsonStringValue(_, _)
\* JSON.parse of the text s between two quotes, from position i of s
JsonStringValue(s, i) ==
    IF i > Len(s) THEN [ok |-> TRUE, s |-> <<>>]
    ELSE IF s[i] \in ControlChars \cup {QUOTE} THEN NoText
    ELSE IF s[i] = BACKSLASH
         THEN IF i = Len(s) \/ Unescaped(s[i + 1]) = NUL THEN NoText
              ELSE LET rest == JsonStringValue(s, i + 2)
                   IN IF rest.ok THEN [ok |-> TRUE, s |-> <<Unescaped(s[i + 1])>> \o rest.s]
                      ELSE NoText
         ELSE LET rest == JsonStringValue(s, i + 1)
              IN IF rest.ok THEN [ok |-> TRUE, s |-> <<s[i]>> \o rest.s] ELSE NoText

C30_EscapeRoundTrip ==
    escapeOut.ran =>
        LET input == escapeIn.input
            read == SubSeq(input, 1, escapeOut.read)
        IN /\ escapeOut.j + 1 <= escapeIn.maxlen
           /\ escapeOut.output = Concat([k \in 1..Len(read) |-> EscapeOf(read[k])])
           /\ \A k \in 1..Len(read) :
                 Len(EscapeOf(read[k])) =
                    (IF read[k] \in {QUOTE, BACKSLASH, NEWLINE, CR, TAB} THEN 2 ELSE 1)
           /\ escapeOut.read = Len(input) =>
                 /\ JsonStringValue(escapeOut.output, 1).ok
                 /\ JsonStringValue(escapeOut.output, 1).s = input

(***************************************************************************)
(* C31: the filterscript publishes no Event before it is connected, and    *)
(* the first Event it publishes is OnBridgeInit, when it is connected and  *)
(* subscribed to the commands channel; every Command that the broker       *)
(* handles after OnBridgeInit was published, as is every Command sent in   *)
(* reaction to it, is handed to the filterscript.                          *)
(***************************************************************************)
C31_BridgeInitFirst ==
    /\ [](hostConn # "connected" => hostEvents = <<>>)
    /\ [](hostEvents # <<>> => hostEvents[1] = "OnBridgeInit")
    /\ [][(hostEvents # <<>> /\ BrokerDelivers) =>
            hostInbox' = Append(hostInbox, WireItem(published[hostNext + 1]))]_vars

\* The scripting side received OnBridgeInit and then a game Event, and the
\* filterscript ran a Command that was sent after it had connected
C31_Witness ==
    /\ hostEvents = <<"OnBridgeInit", "OnPlayerSpawn">>
    /\ emitted = <<"event", "OnPlayerSpawn">>
    /\ hostLast.ran
    /\ \E c \in CallIds : calls[c].state = "resolved"

(***************************************************************************)
(* C32: the promise of waitForConnection() is resolved at the call when    *)
(* isConnected is true and otherwise stays waiting until the next          *)
(* "connected" signal, which resolves it; no promise is resolved by a step *)
(* that does not leave the bridge connected.                               *)
(***************************************************************************)
C32_WaitResolvesOnConnected ==
    /\ [][WaitForConnection =>
            /\ Len(waits') = Len(waits) + 1
            /\ waits'[Len(waits')] = (IF connected THEN "resolved" ELSE "waiting")
            /\ SubSeq(waits', 1, Len(waits)) = waits]_vars
    /\ [][\A k \in 1..Len(waits) :
            /\ waits[k] = "resolved" => waits'[k] = "resolved"
            /\ (waits[k] = "waiting" /\ waits'[k] = "resolved") =>
                  (emitted' = <<"connected">> /\ connected')
            /\ (waits[k] = "waiting" /\ emitted' = <<"connected">>) =>
                  waits'[k] = "resolved"]_vars

\* A call made while connected was resolved at once, and a call made after
\* the connection was lost is still waiting
C32_Witness ==
    /\ waits = <<"resolved", "waiting">>
    /\ ~connected
    /\ emitted = <<"disconnected">>

\* C33: the ids allocated by sendCommand and sendCommandNoWait are 1, 2, 3, ...
\* in the order of the calls, over subscriber closes, reconnects and stop()
\* followed by start(): the k-th published Command carries the id k and the
\* counter never decreases; no two calls of sendCommand ever carry the same id,
\* every registry entry belongs to the call that carries its id, and a call is
\* resolved only by a Response carrying its own id.
C33_IdsStrictlyIncrease ==
    /\ [](/\ messageId = Len(published)
          /\ \A k \in 1..Len(published) : published[k].id = NumberToString(k)
          /\ \A i, j \in 1..Len(calls) :
                i # j /\ calls[i].id # <<>> => calls[i].id # calls[j].id
          /\ \A i \in 1..Len(pendingResponses) :
                calls[pendingResponses[i].call].id = pendingResponses[i].id)
    /\ [][/\ messageId' >= messageId
          /\ published' # published =>
                /\ messageId' = messageId + 1
                /\ published'[Len(published')].id = NumberToString(messageId')
          /\ \A g \in Gens : \A m \in Answers :
                HandleMessage(g, CHANNEL_RESPONSES, m) =>
                   \A c \in 1..Len(calls) :
                      calls'[c] # calls[c] => calls[c].id = String(m.id)]_vars

\* A call issued after stop() and start() holds the id 2 while the call with
\* the id 1, issued before stop(), was rejected by stop()
C33_Witness ==
    /\ starts = 2
    /\ connected
    /\ Len(calls) = 2
    /\ calls[1].id = <<1>>
    /\ calls[1].error = "Server stopped"
    /\ calls[2].id = <<2>>
    /\ calls[2].state = "pending"

\* C34: in every reachable state the armed deadline timers are exactly the
\* timers of the entries of pendingResponses, one per entry and for the call
\* of that entry; a timer leaves the set of armed timers only in a step that
\* settles its call or removes its entry (a Response, a subscriber close,
\* stop(), or its own firing), and a timer that fires still finds its entry.
C34_TimersMatchRegistry ==
    /\ []({[call |-> t.call, id |-> t.id] : t \in timers}
             = {pendingResponses[i] : i \in 1..Len(pendingResponses)})
    /\ [](Cardinality(timers) = Len(pendingResponses))
    /\ [][/\ \A t \in timers \ timers' :
                /\ MapHas(pendingResponses, t.id)
                /\ ~MapHas(pendingResponses', t.id)
                /\ calls[t.call].state = "pending"
                /\ calls'[t.call].state # "pending"
          /\ \A t \in timers : TimerFire(t) => MapHas(pendingResponses, t.id)]_vars

\* A Response has settled the first call and cancelled its timer while the
\* timer of the second call is still armed
C34_Witness ==
    /\ Len(calls) = 2
    /\ calls[1].state = "resolved"
    /\ calls[2].state = "pending"
    /\ timers = {[call |-> 2, id |-> <<2>>, ms |-> DefaultTimeout]}
    /\ Len(pendingResponses) = 1

\* C35: handleMessage acts by the channel of the message only: a message on the
\* events channel leaves pendingResponses, the timers and every call as they
\* are even when it carries the id of a pending call and an ok field; a message
\* on the responses channel emits no event; a message on any other channel
\* leaves the registry, the timers and the calls unchanged and emits nothing.
C35_HandledByChannelOnly ==
    [][\A g \in Gens, ch \in Channels : \A m \in MessagesOn(ch) :
         HandleMessage(g, ch, m) =>
            /\ ch = CHANNEL_EVENTS => UNCHANGED <<pendingResponses, timers, calls>>
            /\ ch = CHANNEL_RESPONSES => emitted' = <<>>
            /\ ch \notin {CHANNEL_EVENTS, CHANNEL_RESPONSES} =>
                  /\ UNCHANGED <<pendingResponses, timers, calls>>
                  /\ emitted' = <<>>
            /\ UNCHANGED <<publisher, subscriber, subStatus, connected, messageId,
                           published>>]_vars

\* An Event message carrying the id of the pending call 1 and ok: false has
\* been handled, and the call is still pending and registered
C35_Witness ==
    /\ Len(emitted) = 2
    /\ emitted[1] = "event"
    /\ Len(calls) >= 1
    /\ calls[1].id = String(NumId(1))
    /\ calls[1].state = "pending"
    /\ MapHas(pendingResponses, calls[1].id)
    /\ \E t \in timers : t.call = 1

\* C36: for every attempt n >= 1 the delay returned by retryStrategy is the
\* smaller of n * 100 ms and 3000 ms: it is a number of milliseconds, positive
\* and at most 3000 (never a value that makes the client give up), and from one
\* attempt to the next it never decreases.
C36_RetryDelayCapped ==
    /\ [](retryTimes >= 1 =>
            /\ retryDelay \in 1..3000
            /\ retryDelay <= retryTimes * 100
            /\ retryDelay \in {retryTimes * 100, 3000})
    /\ [][retryDelay' >= retryDelay]_vars

\* The delay of an attempt beyond the thirtieth, where the cap applies
C36_Witness ==
    /\ retryTimes = 31
    /\ retryDelay = 3000

\* C37: a dispatch invokes a handler only if the handler is registered for the
\* dispatch's event when its turn comes: a handler removed before its turn,
\* by its unsubscribe function, by off(event, h) or by off(event), is not
\* invoked by a dispatch that was already in flight.
C37_RemovedNotInvoked ==
    [][\A e \in Entered :
         \A k \in {j \in 1..Len(e.log) : \A d \in Left : j > Len(d.log)} :
            /\ handlers[e.ev] = e.set
            /\ SetHas(Chain(e.ev), sets[e.set][e.log[k].pos])]_vars

\* C38: the step of sendCommand that publishes a Command has registered its
\* id in pendingResponses and armed its timer, so the entry exists before the
\* Command can reach the filterscript: every Response that the filterscript
\* publishes to a Command of sendCommand carries the id of a call that was
\* registered, and which is still registered unless it was settled since.
C38_RegisteredBeforePublished ==
    /\ [][(Len(published') > Len(published)
             /\ published'[Len(published')].by = "sendCommand") =>
            LET id == published'[Len(published')].id
            IN /\ ~MapHas(pendingResponses, id)
               /\ MapHas(pendingResponses', id)
               /\ \E t \in timers' : t.id = id /\ t.call = MapGet(pendingResponses', id).call
               /\ hostNext' < Len(published')]_vars
    /\ [](\A k \in 1..Len(responses) :
            LET m == JsonParse(responses[k])
            IN (/\ m.kind = "obj"
                /\ \E p \in 1..Len(published) :
                      /\ published[p].by = "sendCommand"
                      /\ published[p].id = String(m.id)) =>
                  \E c \in 1..Len(calls) :
                     /\ calls[c].id = String(m.id)
                     /\ MapHas(pendingResponses, String(m.id)) \/ calls[c].state # "pending")

\* The Response to the first call was delivered and resolved it: its entry
\* was registered when the Response arrived
C38_Witness ==
    /\ Len(responses) >= 1
    /\ Len(calls) >= 1
    /\ calls[1].id = String(JsonParse(responses[1]).id)
    /\ calls[1].state = "resolved"
    /\ calls[1].removed = 1
    /\ published[1].by = "sendCommand"

\* C39: sendCommand called while the publisher is missing or the bridge is not
\* connected returns a promise rejected with "Not connected to Redis" and does
\* nothing else: the id counter, pendingResponses, the armed timers and the
\* published Commands are unchanged, and no other call is touched.
C39_NotConnectedChangesNothing ==
    [][\A cmd \in Commands :
         (SendCommand(cmd, NoArgs, NoTimeout) /\ (publisher = 0 \/ ~connected)) =>
            /\ UNCHANGED <<messageId, pendingResponses, timers, published>>
            /\ Len(calls') = Len(calls) + 1
            /\ SubSeq(calls', 1, Len(calls)) = calls
            /\ calls'[Len(calls')].state = "rejected"
            /\ calls'[Len(calls')].error = "Not connected to Redis"
            /\ calls'[Len(calls')].id = <<>>]_vars

\* The second call was made while the bridge was not connected: it was
\* rejected, and the counter still stands at the id of the first call
C39_Witness ==
    /\ Len(calls) = 2
    /\ calls[1].id = <<1>>
    /\ calls[2].state = "rejected"
    /\ calls[2].error = "Not connected to Redis"
    /\ messageId = 1
    /\ Len(published) = 1

\* C40: after stop() followed by start(), a close event of the subscriber
\* client of the earlier start() leaves the bridge as it is: isConnected keeps
\* its value, "disconnected" is not emitted, and no pending call and no
\* registry entry of the new connection is touched.
C40_OldConnectionIsInert ==
    [][\A g \in Gens :
         (subscriber # 0 /\ g # subscriber /\ SubscriberClose(g)) =>
            /\ connected' = connected
            /\ emitted' # <<"disconnected">>
            /\ UNCHANGED <<pendingResponses, timers, calls>>]_vars

\* The specification with the fairness the timers provide: an armed timer fires
LiveSpec ==
    /\ Spec
    /\ \A c \in 1..MaxCalls : WF_vars(\E t \in timers : t.call = c /\ TimerFire(t))
====
